---------------------------- MODULE Spec2Model ----------------------------
(***************************************************************************)
(* A model of cpp/util/etcd.cc: the request pipeline of EtcdClient         *)
(* (Generic, Request::Run, EtcdClient::RequestDone, MaybeUpdateLeader,     *)
(* the connection map and the leader pointer) and the watch engine         *)
(* (WatchState: snapshot read, long-polls, delayed retries, deliveries).   *)
(*                                                                         *)
(* One Watch call is modelled, against a store that commits changes while  *)
(* the watch runs.  Handlers run one at a time; the closures handed to     *)
(* task_->executor() and to event_base_ are kept in two FIFO queues.  A    *)
(* failed CHECK ends the process: it is recorded in "aborted" and nothing  *)
(* runs afterwards.                                                        *)
(***************************************************************************)
EXTENDS Integers, Sequences, FiniteSets, TLC

(***************************************************************************)
(* Bounds of the model.                                                    *)
(***************************************************************************)
\* the store commits changes until its index reaches MaxIndex
MaxIndex == 3
\* how many failures (transport failures, HTTP errors, malformed bodies)
\* the environment injects while the watch is not cancelled
MaxFailures == 1
\* how many 307 responses the environment sends
MaxRedirects == 1

(***************************************************************************)
(* Values.                                                                 *)
(***************************************************************************)
\* keys are strings, kept as sequences of characters so that the last
\* character can be read
KeyFile == <<"/", "f">>
KeyDir == <<"/", "d", "/">>
KeyChild == <<"/", "d", "/", "c">>
EmptyString == <<>>

EndpointA == <<"a", 4001>>
EndpointB == <<"b", 4001>>
Endpoints == {EndpointA, EndpointB}
NoEndpoint == <<"", 0>>

\* a libevent::HttpConnection: the endpoint it talks to, and whether it is
\* the connection cached in conns_ or a clone made for one request
\* (serial tells apart two connections made for one endpoint)
NoConn == [ep |-> NoEndpoint, serial |-> 0, clone |-> FALSE, null |-> TRUE]
NewConn(ep, serial) == [ep |-> ep, serial |-> serial, clone |-> FALSE, null |-> FALSE]

\* HttpConnection::Clone
Clone(conn) == [conn EXCEPT !.clone = TRUE]

Max(S) == CHOOSE x \in S : \A y \in S : y <= x
Min(S) == CHOOSE x \in S : \A y \in S : x <= y

IndexRange == -1 .. (MaxIndex + 2)

\* std::to_string on an index
to_string(n) == ToString(n)

\* atoll on the text of an index
atoll(s) == CHOOSE n \in IndexRange : ToString(n) = s

(***************************************************************************)
(* Nodes, updates and JSON bodies.                                         *)
(***************************************************************************)
Node(created_index, modified_index, key, value) ==
    [created_index |-> created_index, modified_index |-> modified_index,
     key |-> key, value |-> value]

kInvalidNode == Node(-1, -1, EmptyString, "")

InvalidNode == kInvalidNode

WatchUpdate(node, exists) == [node |-> node, exists |-> exists]

\* A JSON object that may hold the fields of an etcd node.  "fields" is the
\* set of field names present.
JsonNode(fields, createdIndex, modifiedIndex, key, value, dir) ==
    [object |-> TRUE, fields |-> fields, createdIndex |-> createdIndex,
     modifiedIndex |-> modifiedIndex, key |-> key, value |-> value,
     dir |-> dir]

NoJsonNode == JsonNode({}, 0, 0, EmptyString, "", FALSE)

\* an array entry that is not a JSON object
NotAnObject == [NoJsonNode EXCEPT !.object = FALSE]

\* JsonInt/JsonString/JsonBoolean/JsonArray(parent, field).Ok()
Ok(node, field) == node.object /\ field \in node.fields

\* A response body: whether it has a "node" object, that object, and the
\* entries of its "nodes" array (read only when "nodes" is among the
\* fields of the node).
JsonBody(hasNode, node, nodes) ==
    [null |-> FALSE, hasNode |-> hasNode, node |-> node, nodes |-> nodes]

NullBody == [null |-> TRUE, hasNode |-> FALSE, node |-> NoJsonNode, nodes |-> <<>>]

\* the body of an error answer: {"message": ...}
MessageBody == JsonBody(FALSE, NoJsonNode, <<>>)

(***************************************************************************)
(* Statuses.                                                               *)
(***************************************************************************)
ErrorCodeForHttpResponseCode(response_code) ==
    CASE response_code \in {200, 201} -> "OK"
      [] response_code = 403 -> "PERMISSION_DENIED"
      [] response_code = 404 -> "NOT_FOUND"
      [] response_code = 412 -> "FAILED_PRECONDITION"
      [] response_code = 500 -> "UNAVAILABLE"
      [] OTHER -> "UNKNOWN"

StatusFromResponseCode(response_code, json) ==
    ErrorCodeForHttpResponseCode(response_code)

KeyIsDirectory(key) == Len(key) > 0 /\ key[Len(key)] = "/"

(***************************************************************************)
(* Typed decoders.  A decoder is the done callback of the task of one      *)
(* operation; its result here is the sequence of the invocations of the    *)
(* caller's callback it makes, in order.                                   *)
(***************************************************************************)
GetCall(status, node, index) == [status |-> status, node |-> node, index |-> index]

GetAllCall(status, nodes, index) == [status |-> status, nodes |-> nodes, index |-> index]

GetRequestDone(status, json_body, etcd_index) ==
    IF status # "OK" THEN <<GetCall(status, InvalidNode, -1)>>
    ELSE IF ~json_body.hasNode
    THEN <<GetCall("FAILED_PRECONDITION", InvalidNode, -1)>>
    ELSE LET node == json_body.node IN
         IF ~Ok(node, "createdIndex") \/ ~Ok(node, "modifiedIndex")
            \/ ~Ok(node, "key") \/ ~Ok(node, "value")
         THEN <<GetCall("FAILED_PRECONDITION", InvalidNode, -1)>>
         ELSE <<GetCall("OK",
                        Node(node.createdIndex, node.modifiedIndex, node.key,
                             node.value),
                        etcd_index)>>

\* the loop over "nodes": the first entry that fails to decode ends the
\* call with FAILED_PRECONDITION
EntryOk(entry) ==
    /\ entry.object
    /\ Ok(entry, "value")
    /\ Ok(entry, "createdIndex")
    /\ Ok(entry, "modifiedIndex")
    /\ Ok(entry, "key")

\* isDirValue is what JsonBoolean::Value() yields for "dir": the field
\* when it is present
GetAllRequestDone(status, json_body, etcd_index, isDirValue) ==
    IF status # "OK" THEN <<GetAllCall(status, <<>>, -1)>>
    ELSE IF ~json_body.hasNode
    THEN <<GetAllCall("FAILED_PRECONDITION", <<>>, -1)>>
    ELSE LET node == json_body.node
             value_nodes == json_body.nodes
             \* lines 191-196: no return after the callback
             noDir == IF ~Ok(node, "dir")
                      THEN <<GetAllCall("FAILED_PRECONDITION", <<>>, -1)>>
                      ELSE <<>>
             \* lines 198-201: no return after the callback
             notDir == IF ~isDirValue
                       THEN <<GetAllCall("INVALID_ARGUMENT", <<>>, -1)>>
                       ELSE <<>>
             rest == IF ~Ok(node, "nodes")
                     THEN <<GetAllCall("OK", <<>>, -1)>>
                     ELSE IF \E i \in 1 .. Len(value_nodes) : ~EntryOk(value_nodes[i])
                     THEN <<GetAllCall("FAILED_PRECONDITION", <<>>, -1)>>
                     ELSE <<GetAllCall("OK",
                               [i \in 1 .. Len(value_nodes) |->
                                  Node(value_nodes[i].createdIndex,
                                       value_nodes[i].modifiedIndex,
                                       value_nodes[i].key, value_nodes[i].value)],
                               etcd_index)>>
         IN noDir \o notDir \o rest

\* StatusOr<WatchUpdate>: the status and, when it is OK, the update
\* a faulty UpdateForNode that reports every node as existing; C19 does not
\* hold of it
UpdateForNode_AlwaysExists(node) ==
    IF ~Ok(node, "createdIndex") \/ ~Ok(node, "modifiedIndex") \/ ~Ok(node, "key")
    THEN [status |-> "FAILED_PRECONDITION", update |-> WatchUpdate(InvalidNode, FALSE)]
    ELSE [status |-> "OK",
          update |-> WatchUpdate(Node(node.createdIndex, node.modifiedIndex,
                                      node.key, node.value), TRUE)]

UpdateForNode(node) ==
    IF ~Ok(node, "createdIndex") \/ ~Ok(node, "modifiedIndex") \/ ~Ok(node, "key")
    THEN [status |-> "FAILED_PRECONDITION", update |-> WatchUpdate(InvalidNode, FALSE)]
    ELSE IF Ok(node, "value")
    THEN [status |-> "OK",
          update |-> WatchUpdate(Node(node.createdIndex, node.modifiedIndex,
                                      node.key, node.value), TRUE)]
    ELSE [status |-> "OK",
          update |-> WatchUpdate(Node(node.createdIndex, node.modifiedIndex,
                                      node.key, ""), FALSE)]

\* the status returned and the updates vector afterwards
HandleSingleValueRequestDone(node, updates) ==
    LET status == UpdateForNode(node) IN
    IF status.status # "OK"
    THEN [status |-> status.status, updates |-> updates]
    ELSE [status |-> "OK", updates |-> Append(updates, status.update)]

\* the invocations of the callbacks that carry an index, or a key and an
\* index, and the failure of a CHECK inside a decoder
IndexCall(status, index) == [status |-> status, index |-> index]

KeyCall(status, key, index) == [status |-> status, key |-> key, index |-> index]

CheckFailed(check) == [check |-> check]

CreateRequestDone(status, json_body, etcd_index) ==
    IF status # "OK" THEN <<IndexCall(status, -1)>>
    ELSE IF ~json_body.hasNode THEN <<IndexCall("FAILED_PRECONDITION", 0)>>
    ELSE LET node == json_body.node IN
         IF ~Ok(node, "createdIndex") THEN <<IndexCall("FAILED_PRECONDITION", 0)>>
         ELSE IF ~Ok(node, "modifiedIndex") THEN <<IndexCall("FAILED_PRECONDITION", 0)>>
         ELSE IF node.createdIndex # node.modifiedIndex
         THEN <<CheckFailed("CHECK_EQ(createdIndex, modifiedIndex)")>>
         ELSE <<IndexCall("OK", node.modifiedIndex)>>

CreateInQueueRequestDone(status, json_body, etcd_index) ==
    IF status # "OK" THEN <<KeyCall(status, EmptyString, -1)>>
    ELSE IF ~json_body.hasNode THEN <<KeyCall("FAILED_PRECONDITION", EmptyString, 0)>>
    ELSE LET node == json_body.node IN
         IF ~Ok(node, "createdIndex") \/ ~Ok(node, "modifiedIndex") \/ ~Ok(node, "key")
         THEN <<KeyCall("FAILED_PRECONDITION", EmptyString, 0)>>
         ELSE IF node.createdIndex # node.modifiedIndex
         THEN <<CheckFailed("CHECK_EQ(createdIndex, modifiedIndex)")>>
         ELSE <<KeyCall("OK", node.key, node.modifiedIndex)>>

UpdateRequestDone(status, json_body, etcd_index) ==
    IF status # "OK" THEN <<IndexCall(status, -1)>>
    ELSE IF ~json_body.hasNode THEN <<IndexCall("FAILED_PRECONDITION", 0)>>
    ELSE IF ~Ok(json_body.node, "modifiedIndex")
    THEN <<IndexCall("FAILED_PRECONDITION", 0)>>
    ELSE <<IndexCall("OK", json_body.node.modifiedIndex)>>

ForceSetRequestDone(status, json_body, etcd_index) ==
    IF status # "OK" THEN <<IndexCall(status, -1)>>
    ELSE IF ~json_body.hasNode THEN <<IndexCall("FAILED_PRECONDITION", 0)>>
    ELSE IF ~Ok(json_body.node, "modifiedIndex")
    THEN <<IndexCall("FAILED_PRECONDITION", 0)>>
    ELSE <<IndexCall("OK", json_body.node.modifiedIndex)>>

DeleteRequestDone(status, json_body, etcd_index) ==
    IF status # "OK" THEN <<IndexCall(status, -1)>>
    ELSE <<IndexCall("OK", etcd_index)>>

(***************************************************************************)
(* State.                                                                  *)
(***************************************************************************)
VARIABLES
    \* the store: its current index, and the indices at which the watched
    \* key (or a key below the watched directory) changed
    storeIndex, changes,
    \* the store's index when it answered the snapshot read (0 before)
    snapshotAt,
    \* how many failures and redirects the environment has produced
    failures, redirects,
    \* FLAGS_etcd_consistent, FLAGS_etcd_quorum
    etcd_consistent, etcd_quorum,
    \* EtcdClient: conns_, leader_ (nConns counts the connections made)
    conns_, leader_, nConns,
    \* the Request objects alive, by identity, with their GenericResponse
    \* and their task; nextId is the identity of the next one
    reqs, nextId,
    \* the closures waiting in event_base_ and in task_->executor()
    baseQ, taskQ,
    \* WatchState: key_, highest_index_seen_, and the caller's task_
    key_, highest_index_seen_, task_,
    \* the delayed retries waiting for their timer
    delays,
    \* the CHECK that ended the process ("" while it runs)
    aborted,
    \* history: the batches the callback cb_ received, the number of batches
    \* produced, and what the latest handler of the client did
    delivered, produced, last,
    \* a typed operation issued by a caller (Get, Create, ...), and the
    \* invocations its callback received
    issued, cbCalls,
    \* EtcdClient::lock_ (the thread that holds it, 0 when free) and the
    \* threads that are inside GetConnection, GetLeader or UpdateLeader
    lock_, threads,
    \* history of the calls to GetConnection, GetLeader and UpdateLeader
    hist

envVars == <<storeIndex, changes, snapshotAt, failures, redirects>>

clientVars ==
    <<etcd_consistent, etcd_quorum, conns_, leader_, nConns, reqs, nextId,
      baseQ, taskQ, key_, highest_index_seen_, task_, delays, aborted,
      delivered, produced, last>>

callerVars == <<issued, cbCalls, lock_, threads, hist>>

vars == <<envVars, clientVars, callerVars>>

\* the client's state as one value, so that a handler is a function from
\* the state before it to the state after it
Client ==
    [etcd_consistent |-> etcd_consistent, etcd_quorum |-> etcd_quorum,
     conns_ |-> conns_, leader_ |-> leader_, nConns |-> nConns,
     reqs |-> reqs, nextId |-> nextId, baseQ |-> baseQ, taskQ |-> taskQ,
     key_ |-> key_, highest_index_seen_ |-> highest_index_seen_,
     task_ |-> task_, delays |-> delays, aborted |-> aborted,
     delivered |-> delivered, produced |-> produced, last |-> last]

Assign(c) ==
    /\ etcd_consistent' = c.etcd_consistent
    /\ etcd_quorum' = c.etcd_quorum
    /\ conns_' = c.conns_
    /\ leader_' = c.leader_
    /\ nConns' = c.nConns
    /\ reqs' = c.reqs
    /\ nextId' = c.nextId
    /\ baseQ' = c.baseQ
    /\ taskQ' = c.taskQ
    /\ key_' = c.key_
    /\ highest_index_seen_' = c.highest_index_seen_
    /\ task_' = c.task_
    /\ delays' = c.delays
    /\ aborted' = c.aborted
    /\ delivered' = c.delivered
    /\ produced' = c.produced
    /\ last' = c.last

\* a handler of the client ran: the callers' state is as it was
Becomes(c) == Assign(c) /\ UNCHANGED callerVars

\* History of one handler: which handler ran and on which Request, whether
\* cancellation had been requested when it began, what the completion it
\* handled carried (index, ok), what came of it (outcome), the endpoint of
\* a redirect, and, when it called StartRequest and a poll was issued
\* (started), the poll's waitIndex, highest_index_seen_ at that moment,
\* the batches then still waiting for the callback, and for a delayed
\* retry the waitIndex of the poll that had failed.  For a completion it
\* also tells whether the response was absent (null), the response code,
\* and for every handler the leader when it began.
NoHandler ==
    [handler |-> "", id |-> 0, cancelled |-> FALSE, index |-> -1, ok |-> FALSE,
     outcome |-> "", ep |-> NoEndpoint, started |-> FALSE, waitIndex |-> -1,
     highest |-> -1, undelivered |-> 0, retryOf |-> -1,
     null |-> FALSE, code |-> 0, leader |-> NoConn, node |-> NoJsonNode,
     nodes |-> 0, read |-> ""]

Began(c, handler, id) ==
    [c EXCEPT !.last = [NoHandler EXCEPT !.handler = handler, !.id = id,
                                         !.cancelled = c.task_.cancel_requested,
                                         !.leader = c.leader_]]

\* a failed CHECK: the process ends
Abort(c, check) == [c EXCEPT !.aborted = check]

(***************************************************************************)
(* Executors and tasks.                                                    *)
(***************************************************************************)
NoBatch == [bid |-> 0, src |-> "none", updates |-> <<>>]

\* a closure handed to an executor: what it calls, the Request it is about,
\* the connection or batch bound into it, and (for a retry) the waitIndex
\* of the poll it retries
Closure(op, id, conn, batch, retryOf) ==
    [op |-> op, id |-> id, conn |-> conn, batch |-> batch, retryOf |-> retryOf]

\* Executor::Add: closures run in the order they were added
Add(queue, closure) == Append(queue, closure)

\* new Task(done_callback, executor), task->AddChild(done_callback);
\* "returns" counts the calls of Return
Task(done_callback, executor) ==
    [done_callback |-> done_callback, executor |-> executor, status |-> "ACTIVE",
     returns |-> 0]

\* Task::Return on the task of Request id: the status is set and the done
\* callback is handed to the task's executor
TaskReturn(c, id, status) ==
    LET task == c.reqs[id].task_
        closure == Closure(task.done_callback, id, NoConn, NoBatch, -1)
        c1 == [c EXCEPT !.reqs[id].task_.status = status,
                        !.reqs[id].task_.returns = @ + 1]
    IN IF task.executor = "event_base_"
       THEN [c1 EXCEPT !.baseQ = Add(@, closure)]
       ELSE [c1 EXCEPT !.taskQ = Add(@, closure)]

\* Task::Return on the task given to Watch
WatchReturn(c, status) ==
    IF c.task_.status = "ACTIVE" THEN [c EXCEPT !.task_.status = status] ELSE c

\* Task::CancelRequested on the task given to Watch
CancelRequested(c) == c.task_.cancel_requested

(***************************************************************************)
(* Connections and the leader.                                             *)
(***************************************************************************)
\* the connection returned and the state afterwards
\* a faulty GetConnection that never looks the endpoint up; C15 does not
\* hold of it
GetConnection_NoLookup(c, host_port) ==
    LET conn == NewConn(host_port, c.nConns + 1) IN
    [conn |-> conn,
     c |-> [c EXCEPT !.conns_ = (host_port :> conn) @@ @,
                     !.nConns = (@ + 1) % 4]]

GetConnection(c, host_port) ==
    IF host_port \notin DOMAIN c.conns_
    THEN LET conn == NewConn(host_port, c.nConns + 1) IN
         [conn |-> conn,
          c |-> [c EXCEPT !.conns_ = (host_port :> conn) @@ @,
                          !.nConns = @ + 1]]
    ELSE [conn |-> c.conns_[host_port], c |-> c]

GetLeader(c) == c.leader_

\* a faulty variant of UpdateLeader that hands out the connection but leaves
\* leader_ as it was; C10 does not hold of it
UpdateLeader_NoStore(c, host_port) ==
    LET g == GetConnection(c, host_port) IN
    [conn |-> g.conn, c |-> g.c]

\* EtcdClient::UpdateLeader
UpdateLeader(c, host_port) ==
    LET g == GetConnection(c, host_port) IN
    [conn |-> g.conn, c |-> [g.c EXCEPT !.leader_ = g.conn]]

(***************************************************************************)
(* The request pipeline.                                                   *)
(***************************************************************************)
NoGenericResponse == [etcd_index |-> -1, json_body |-> NullBody]

\* what libevent hands to EtcdClient::RequestDone: no request at all
\* (null), or a response code, the "location" and "X-Etcd-Index" headers
\* (each present or not) and a body
Header(present, text) == [present |-> present, text |-> text]

NoHeader == Header(FALSE, "")

NullResponse ==
    [null |-> TRUE, code |-> 0, location |-> [present |-> FALSE, ep |-> NoEndpoint],
     etcd_index |-> NoHeader, body |-> NullBody]

Response(code, etcd_index, body) ==
    [null |-> FALSE, code |-> code,
     location |-> [present |-> FALSE, ep |-> NoEndpoint],
     etcd_index |-> etcd_index, body |-> body]

RedirectResponse(hasLocation, ep) ==
    [null |-> FALSE, code |-> 307,
     location |-> [present |-> hasLocation, ep |-> IF hasLocation THEN ep ELSE NoEndpoint],
     etcd_index |-> NoHeader, body |-> MessageBody]

\* a faulty variant of the parameters of EtcdClient::Generic that adds
\* quorum whether or not "wait" is there; C13 does not hold of it
ModifiedParams_QuorumAlways(c, params) ==
    LET consistent == IF c.etcd_consistent
                      THEN ("consistent" :> "true") @@ params
                      ELSE params
    IN IF c.etcd_quorum
       THEN ("quorum" :> "true") @@ consistent
       ELSE consistent

\* EtcdClient::Generic, up to the Request it makes and the closure it adds
ModifiedParams(c, params) ==
    LET consistent == IF c.etcd_consistent
                      THEN ("consistent" :> "true") @@ params
                      ELSE params
    IN IF c.etcd_quorum /\ "wait" \notin DOMAIN consistent
       THEN ("quorum" :> "true") @@ consistent
       ELSE consistent

Generic(c, key, params, verb, separate_conn, task) ==
    LET etcd_req == [verb_ |-> verb, path_ |-> <<"/v2/keys">> \o key,
                     separate_conn_ |-> separate_conn,
                     params_ |-> ModifiedParams(c, params),
                     gen_resp_ |-> NoGenericResponse, task_ |-> task,
                     conn_ |-> NoConn, req_ |-> FALSE,
                     runs |-> 0]
        id == c.nextId
    IN [c EXCEPT !.reqs = (id :> etcd_req) @@ @,
                 !.nextId = @ + 1,
                 !.baseQ = Add(@, Closure("Run", id, GetLeader(c), NoBatch, -1))]

\* Request::Run
\* a faulty Request::Run that never clones the connection; C22 does not
\* hold of it
RequestRun_Shared(c, id, conn) ==
    LET r == c.reqs[id] IN
    IF r.req_ THEN Abort(c, "CHECK(!req_)")
    ELSE IF ~r.conn_.null THEN Abort(c, "CHECK(!conn_)")
    ELSE [c EXCEPT !.reqs[id].conn_ = conn,
                   !.reqs[id].req_ = TRUE,
                   !.reqs[id].runs = @ + 1]

RequestRun(c, id, conn) ==
    LET r == c.reqs[id] IN
    IF r.req_ THEN Abort(c, "CHECK(!req_)")
    ELSE IF ~r.conn_.null THEN Abort(c, "CHECK(!conn_)")
    ELSE [c EXCEPT !.reqs[id].conn_ = IF r.separate_conn_ THEN Clone(conn) ELSE conn,
                   !.reqs[id].req_ = TRUE,
                   !.reqs[id].runs = @ + 1]

\* Request::Reset
\* a faulty Request::Reset that keeps the connection; C26 does not hold of it
RequestReset_KeepsConn(r) == [r EXCEPT !.req_ = FALSE]

RequestReset(r) == [r EXCEPT !.req_ = FALSE, !.conn_ = NoConn]

\* the value returned and the state afterwards
MaybeUpdateLeader(c, id, req) ==
    IF req.code # 307 THEN [ret |-> FALSE, c |-> c]
    ELSE IF ~req.location.present
    THEN [ret |-> TRUE, c |-> Abort(c, "CHECK_NOTNULL(location)")]
    ELSE LET u == UpdateLeader(c, req.location.ep)
             c1 == RequestRun(u.c, id, u.conn)
         IN [ret |-> TRUE, c |-> c1]

\* a faulty variant of EtcdClient::RequestDone that reports an absent
\* response as UNAVAILABLE; C12 does not hold of it
EtcdClientRequestDone_NullUnavailable(c, id, req) ==
    LET c0 == [c EXCEPT !.reqs[id] = RequestReset(@)] IN
    IF req.null
    THEN TaskReturn([c0 EXCEPT !.reqs[id].gen_resp_ =
                        [etcd_index |-> -1, json_body |-> NullBody]],
                    id, "UNAVAILABLE")
    ELSE LET m == MaybeUpdateLeader(c0, id, req) IN
         IF m.ret THEN m.c
         ELSE TaskReturn(
                [c0 EXCEPT !.reqs[id].gen_resp_ =
                    [etcd_index |-> IF req.etcd_index.present
                                    THEN atoll(req.etcd_index.text)
                                    ELSE -1,
                     json_body |-> req.body]],
                id, StatusFromResponseCode(req.code, req.body))

\* EtcdClient::RequestDone
EtcdClientRequestDone(c, id, req) ==
    LET c0 == [c EXCEPT !.reqs[id] = RequestReset(@)] IN
    IF req.null
    THEN TaskReturn([c0 EXCEPT !.reqs[id].gen_resp_ =
                        [etcd_index |-> -1, json_body |-> NullBody]],
                    id, "UNKNOWN")
    ELSE LET m == MaybeUpdateLeader(c0, id, req) IN
         IF m.ret THEN m.c
         ELSE TaskReturn(
                [c0 EXCEPT !.reqs[id].gen_resp_ =
                    [etcd_index |-> IF req.etcd_index.present
                                    THEN atoll(req.etcd_index.text)
                                    ELSE -1,
                     json_body |-> req.body]],
                id, StatusFromResponseCode(req.code, req.body))

\* the Request and its GenericResponse are deleted with the task
DeleteWhenDone(c, id) ==
    [c EXCEPT !.reqs = [i \in DOMAIN @ \ {id} |-> @[i]]]

(***************************************************************************)
(* The watch engine.                                                       *)
(***************************************************************************)
\* the batches handed to the executor and not yet given to the callback
Undelivered(c) ==
    Cardinality({i \in 1 .. Len(c.taskQ) : c.taskQ[i].op \in {"cb_", "SendUpdates"}})

\* WatchState::StartRequest.  retryOf is history: for a delayed retry, the
\* waitIndex of the poll that failed.
\* a faulty StartRequest without the test of CancelRequested; C23 does not
\* hold of it
StartRequest_NoCancelTest(c, retryOf) ==
    LET params == [wait |-> "true",
                   waitIndex |-> to_string(c.highest_index_seen_ + 1),
                   recursive |-> "true"]
        c1 == Generic(c, c.key_, params, "GET", TRUE,
                      Task("WatchState::RequestDone", "task_->executor()"))
    IN [c1 EXCEPT !.last.started = TRUE,
                  !.last.waitIndex = atoll(c1.reqs[c.nextId].params_["waitIndex"]),
                  !.last.highest = c.highest_index_seen_,
                  !.last.undelivered = Undelivered(c),
                  !.last.retryOf = retryOf]

StartRequest(c, retryOf) ==
    IF CancelRequested(c) THEN WatchReturn(c, "CANCELLED")
    ELSE LET params == [wait |-> "true",
                        waitIndex |-> to_string(c.highest_index_seen_ + 1),
                        recursive |-> "true"]
             c1 == Generic(c, c.key_, params, "GET", TRUE,
                           Task("WatchState::RequestDone", "task_->executor()"))
         IN [c1 EXCEPT !.last.started = TRUE,
                       !.last.waitIndex = atoll(c1.reqs[c.nextId].params_["waitIndex"]),
                       !.last.highest = c.highest_index_seen_,
                       !.last.undelivered = Undelivered(c),
                       !.last.retryOf = retryOf]

\* a faulty variant of InitialGetAllDone that hands no batch to the executor
\* when the snapshot holds no node; C3 does not hold of it
InitialGetAllDone_SkipEmpty(c, status, nodes, etcd_index, cancelNow) ==
    IF CancelRequested(c) THEN WatchReturn(c, "CANCELLED")
    ELSE IF status # "OK" THEN Abort(c, "CHECK(status.ok())")
    ELSE LET updates == [i \in 1 .. Len(nodes) |-> WatchUpdate(nodes[i], TRUE)]
             batch == [bid |-> c.produced + 1, src |-> "snapshot", updates |-> updates]
             c0 == [c EXCEPT !.highest_index_seen_ = etcd_index]
             c1 == IF updates = <<>> THEN c0
                   ELSE [c0 EXCEPT !.taskQ = Add(@, Closure("cb_", 0, NoConn, batch, -1)),
                                   !.produced = @ + 1]
             c2 == IF cancelNow THEN [c1 EXCEPT !.task_.cancel_requested = TRUE] ELSE c1
         IN StartRequest(c2, -1)

\* WatchState::InitialGetAllDone.  cancelNow: the caller's thread cancels
\* the task between the check of line 591 and the one of StartRequest.
InitialGetAllDone(c, status, nodes, etcd_index, cancelNow) ==
    IF CancelRequested(c) THEN WatchReturn(c, "CANCELLED")
    ELSE IF status # "OK" THEN Abort(c, "CHECK(status.ok())")
    ELSE LET updates == [i \in 1 .. Len(nodes) |-> WatchUpdate(nodes[i], TRUE)]
             batch == [bid |-> c.produced + 1, src |-> "snapshot", updates |-> updates]
             c1 == [c EXCEPT !.highest_index_seen_ = etcd_index,
                             !.taskQ = Add(@, Closure("cb_", 0, NoConn, batch, -1)),
                             !.produced = @ + 1]
             c2 == IF cancelNow THEN [c1 EXCEPT !.task_.cancel_requested = TRUE] ELSE c1
         IN StartRequest(c2, -1)

\* WatchState::InitialGetDone
\* a faulty InitialGetDone that hands on no node; C21 does not hold of it
InitialGetDone_NoNode(c, status, node, etcd_index, cancelNow) ==
    InitialGetAllDone(c, status, <<>>, etcd_index, cancelNow)

InitialGetDone(c, status, node, etcd_index, cancelNow) ==
    InitialGetAllDone(c, status, <<node>>, etcd_index, cancelNow)

\* the label "fail" of WatchState::RequestDone: a child task of task_ whose
\* done callback is StartRequest is handed to event_base_->Delay
WatchFail(c, waitIndex) ==
    [c EXCEPT !.delays = Append(@, [retryOf |-> waitIndex])]

\* WatchState::RequestDone, the done callback of the task of poll id
WatchStateRequestDone(c, id) ==
    LET gen_resp == c.reqs[id].gen_resp_
        task == c.reqs[id].task_
        waitIndex == atoll(c.reqs[id].params_["waitIndex"])
    IN IF ~(c.highest_index_seen_ <= gen_resp.etcd_index)
       THEN Abort(c, "CHECK_LE(highest_index_seen_, etcd_index)")
       ELSE LET c1 == [c EXCEPT !.highest_index_seen_ = gen_resp.etcd_index] IN
            IF CancelRequested(c1) THEN WatchReturn(c1, "CANCELLED")
            ELSE IF task.status # "OK" THEN WatchFail(c1, waitIndex)
            ELSE IF ~gen_resp.json_body.hasNode THEN WatchFail(c1, waitIndex)
            ELSE LET h == HandleSingleValueRequestDone(gen_resp.json_body.node, <<>>) IN
                 IF h.status # "OK" THEN WatchFail(c1, waitIndex)
                 ELSE LET batch == [bid |-> c.produced + 1, src |-> "poll",
                                    updates |-> h.updates]
                      IN [c1 EXCEPT !.taskQ = Add(@, Closure("SendUpdates", 0, NoConn,
                                                             batch, -1)),
                                    !.produced = @ + 1]

\* the caller's callback cb_ receives a batch; the history keeps its origin,
\* the modified_index of each update, and whether cancellation had been
\* requested by then
Callback(c, batch) ==
    [c EXCEPT !.delivered =
        Append(@, [bid |-> batch.bid, src |-> batch.src,
                   modified |-> [i \in 1 .. Len(batch.updates) |->
                                   batch.updates[i].node.modified_index],
                   cancelled |-> CancelRequested(c)])]

\* WatchState::SendUpdates
\* a faulty SendUpdates that starts two requests; C24 does not hold of it
SendUpdates_StartsTwice(c, batch) ==
    StartRequest(StartRequest(Callback(c, batch), -1), -1)

SendUpdates(c, batch) ==
    StartRequest(Callback(c, batch), -1)

(***************************************************************************)
(* The operations used by the watch, and construction.                     *)
(***************************************************************************)
NoParams == [x \in {} |-> ""]

Get(c, key) ==
    Generic(c, key, NoParams, "GET", FALSE, Task("GetRequestDone", "event_base_"))

GetAll(c, dir) ==
    Generic(c, dir, NoParams, "GET", FALSE, Task("GetAllRequestDone", "event_base_"))

\* the parameters each operation hands to Generic
CreateParams(value) == [value |-> value, prevExist |-> "false"]

CreateWithTTLParams(value, ttl) ==
    [value |-> value, prevExist |-> "false", ttl |-> to_string(ttl)]

UpdateParams(value, previous_index) ==
    [value |-> value, prevIndex |-> to_string(previous_index)]

UpdateWithTTLParams(value, ttl, previous_index) ==
    [value |-> value, prevIndex |-> to_string(previous_index), ttl |-> to_string(ttl)]

ForceSetParams(value) == [value |-> value]

ForceSetWithTTLParams(value, ttl) == [value |-> value, ttl |-> to_string(ttl)]

DeleteParams(current_index) == [prevIndex |-> to_string(current_index)]

Create(c, key, value) ==
    Generic(c, key, CreateParams(value), "PUT", FALSE,
            Task("CreateRequestDone", "event_base_"))

CreateWithTTL(c, key, value, ttl) ==
    Generic(c, key, CreateWithTTLParams(value, ttl), "PUT", FALSE,
            Task("CreateRequestDone", "event_base_"))

CreateInQueue(c, dir, value) ==
    Generic(c, dir, CreateParams(value), "POST", FALSE,
            Task("CreateInQueueRequestDone", "event_base_"))

Update(c, key, value, previous_index) ==
    Generic(c, key, UpdateParams(value, previous_index), "PUT", FALSE,
            Task("UpdateRequestDone", "event_base_"))

UpdateWithTTL(c, key, value, ttl, previous_index) ==
    Generic(c, key, UpdateWithTTLParams(value, ttl, previous_index), "PUT", FALSE,
            Task("UpdateRequestDone", "event_base_"))

ForceSet(c, key, value) ==
    Generic(c, key, ForceSetParams(value), "PUT", FALSE,
            Task("ForceSetRequestDone", "event_base_"))

ForceSetWithTTL(c, key, value, ttl) ==
    Generic(c, key, ForceSetWithTTLParams(value, ttl), "PUT", FALSE,
            Task("ForceSetRequestDone", "event_base_"))

Delete(c, key, current_index) ==
    Generic(c, key, DeleteParams(current_index), "DELETE", FALSE,
            Task("DeleteRequestDone", "event_base_"))

\* the WatchState constructor
NewWatchState(c, key) ==
    LET c1 == [c EXCEPT !.key_ = key, !.highest_index_seen_ = -1] IN
    IF KeyIsDirectory(key) THEN GetAll(c1, key) ELSE Get(c1, key)

\* EtcdClient::Watch
Watch(c, key) == NewWatchState(c, key)

\* EtcdClient::EtcdClient(event_base, host, port)
NewEtcdClient(host_port, consistent, quorum) ==
    LET blank == [etcd_consistent |-> consistent, etcd_quorum |-> quorum,
                  conns_ |-> [x \in {} |-> NoConn], leader_ |-> NoConn,
                  nConns |-> 0, reqs |-> <<>>, nextId |-> 1,
                  baseQ |-> <<>>, taskQ |-> <<>>, key_ |-> EmptyString,
                  highest_index_seen_ |-> -1,
                  task_ |-> [cancel_requested |-> FALSE, status |-> "ACTIVE"],
                  delays |-> <<>>, aborted |-> "", delivered |-> <<>>,
                  produced |-> 0, last |-> NoHandler]
        g == GetConnection(blank, host_port)
    IN [g.c EXCEPT !.leader_ = g.conn]

(***************************************************************************)
(* Initial state: a client made for endpoint a, and Watch called on a key  *)
(* or on a directory; the key was created at store index 1.                *)
(***************************************************************************)
\* the client's state is c
Starts(c) ==
    /\ etcd_consistent = c.etcd_consistent
    /\ etcd_quorum = c.etcd_quorum
    /\ conns_ = c.conns_
    /\ leader_ = c.leader_
    /\ nConns = c.nConns
    /\ reqs = c.reqs
    /\ nextId = c.nextId
    /\ baseQ = c.baseQ
    /\ taskQ = c.taskQ
    /\ key_ = c.key_
    /\ highest_index_seen_ = c.highest_index_seen_
    /\ task_ = c.task_
    /\ delays = c.delays
    /\ aborted = c.aborted
    /\ delivered = c.delivered
    /\ produced = c.produced
    /\ last = c.last

\* the store holds one key, written at index 1
StoreStarts ==
    /\ storeIndex = 1
    /\ changes = {1}
    /\ snapshotAt = 0
    /\ failures = 0
    /\ redirects = 0

\* no typed operation was issued.  Once one is, this is its history: the
\* call and its arguments, the parameters handed to Generic, the Request
\* made for it, and what its decoder was given.
NoOp ==
    [kind |-> "", key |-> EmptyString, value |-> "", ttl |-> 0, index |-> 0,
     params |-> <<>>, id |-> 0, decoded |-> FALSE, status |-> "",
     json_body |-> NullBody, etcd_index |-> -1]

\* no call to GetConnection, GetLeader or UpdateLeader was made
NoHist ==
    [call |-> "", ep |-> NoEndpoint, returned |-> NoConn, requested |-> {},
     first |-> <<>>, leader |-> NoEndpoint, held |-> {}, race |-> FALSE]

\* no caller besides the one of Watch
NoCallers ==
    /\ issued = NoOp
    /\ cbCalls = <<>>
    /\ lock_ = 0
    /\ threads = <<>>
    /\ hist = NoHist

Init ==
    /\ StoreStarts
    /\ NoCallers
    /\ \E key \in {KeyFile, KeyDir} :
          Starts(Watch(NewEtcdClient(EndpointA, TRUE, TRUE), key))

Running == aborted = ""

(***************************************************************************)
(* The store and the transport.                                            *)
(***************************************************************************)
\* the store commits a change, to the watched key or to another key
StoreCommit(watched) ==
    /\ Running
    /\ storeIndex < MaxIndex
    /\ storeIndex' = storeIndex + 1
    /\ changes' = IF watched THEN changes \cup {storeIndex + 1} ELSE changes
    /\ UNCHANGED <<snapshotAt, failures, redirects, clientVars, callerVars>>

\* the transport holds the HttpRequest of Request id
InFlight(id) == Running /\ id \in DOMAIN reqs /\ reqs[id].req_

RequestKey(r) == Tail(r.path_)

IsLongPoll(r) == "wait" \in DOMAIN r.params_

\* the X-Etcd-Index header: the store's current index
IndexHeader == Header(TRUE, to_string(storeIndex))

AllFields == {"createdIndex", "modifiedIndex", "key", "value"}

\* libevent calls EtcdClient::RequestDone
Completes(id, req) ==
    LET c1 == EtcdClientRequestDone(Began(Client, "EtcdClient::RequestDone", id),
                                    id, req)
    IN Becomes([c1 EXCEPT
          !.last.outcome = IF c1.aborted # "" THEN "abort"
                           ELSE IF ~req.null /\ req.code = 307 THEN "redirect"
                           ELSE "return",
          !.last.ep = req.location.ep,
          !.last.null = req.null,
          !.last.code = req.code,
          !.last.ok = ~req.null /\ ErrorCodeForHttpResponseCode(req.code) = "OK"])

\* a read of a key: its node and the store's index
StoreAnswersGet(id) ==
    /\ InFlight(id)
    /\ ~IsLongPoll(reqs[id])
    /\ ~KeyIsDirectory(RequestKey(reqs[id]))
    /\ Completes(id, Response(200, IndexHeader,
            JsonBody(TRUE,
                     JsonNode(AllFields, Min(changes), Max(changes),
                              RequestKey(reqs[id]), "bar", FALSE),
                     <<>>)))
    /\ snapshotAt' = storeIndex
    /\ UNCHANGED <<storeIndex, changes, failures, redirects>>

\* a read of a directory: a "dir" node, with its children in "nodes", or
\* without "nodes" when the directory is empty
ChildCounts == {0, 1, 2}

ChildKey(dir, i) == dir \o <<to_string(i)>>

StoreAnswersGetAll(id, n) ==
    /\ InFlight(id)
    /\ ~IsLongPoll(reqs[id])
    /\ KeyIsDirectory(RequestKey(reqs[id]))
    /\ Completes(id, Response(200, IndexHeader,
            JsonBody(TRUE,
                     JsonNode({"key", "dir"} \cup (IF n = 0 THEN {} ELSE {"nodes"}),
                              Min(changes), Max(changes),
                              RequestKey(reqs[id]), "", TRUE),
                     [i \in 1 .. n |->
                        JsonNode(AllFields, Min(changes), Max(changes),
                                 ChildKey(RequestKey(reqs[id]), i), "bar", FALSE)])))
    /\ snapshotAt' = storeIndex
    /\ UNCHANGED <<storeIndex, changes, failures, redirects>>

\* a long-poll: the earliest change at or after waitIndex, once there is
\* one, and the store's current index
StoreAnswersPoll(id, hasValue) ==
    /\ InFlight(id)
    /\ IsLongPoll(reqs[id])
    /\ LET waitIndex == atoll(reqs[id].params_["waitIndex"])
           later == {i \in changes : i >= waitIndex}
       IN /\ later # {}
          /\ Completes(id, Response(200, IndexHeader,
                JsonBody(TRUE,
                         JsonNode({"createdIndex", "modifiedIndex", "key"}
                                     \cup (IF hasValue THEN {"value"} ELSE {}),
                                  Min(changes), Min(later),
                                  RequestKey(reqs[id]),
                                  IF hasValue THEN "bar" ELSE "", FALSE),
                         <<>>)))
    /\ UNCHANGED envVars

\* a follower answers 307, with or without a location header
StoreRedirects(id, hasLocation, ep) ==
    /\ InFlight(id)
    /\ redirects < MaxRedirects
    /\ redirects' = redirects + 1
    /\ Completes(id, RedirectResponse(hasLocation, ep))
    /\ UNCHANGED <<storeIndex, changes, snapshotAt, failures>>

\* the failures of one request: no response at all, an HTTP error with or
\* without the index header, and 200 with a body that does not decode
ErrorCodes == {404, 500}

Failures(r) ==
    {NullResponse}
    \cup {Response(code, h, MessageBody) :
             code \in ErrorCodes, h \in {IndexHeader, NoHeader}}
    \cup {Response(200, h, MessageBody) : h \in {IndexHeader, NoHeader}}
    \cup {Response(200, IndexHeader,
                   JsonBody(TRUE,
                            JsonNode({"createdIndex", "key", "value"}, Min(changes),
                                     Max(changes), RequestKey(r), "bar", FALSE),
                            <<>>))}
    \cup (IF KeyIsDirectory(RequestKey(r)) /\ ~IsLongPoll(r)
          THEN {Response(200, IndexHeader,
                         JsonBody(TRUE,
                                  JsonNode(fields, Min(changes), Max(changes),
                                           RequestKey(r), "bar", FALSE),
                                  <<>>)) :
                   fields \in {{"key"}, {"key", "dir"}, {"key", "value", "dir", "nodes"}}}
          ELSE {})

\* Once the watch is cancelled a request still fails when nothing answers
\* it (the connection timeout), whatever the number of failures so far.
RequestFails(id, req) ==
    /\ InFlight(id)
    /\ failures < MaxFailures \/ task_.cancel_requested
    /\ failures' = IF failures < MaxFailures THEN failures + 1 ELSE failures
    /\ req \in Failures(reqs[id])
    /\ Completes(id, req)
    /\ UNCHANGED <<storeIndex, changes, snapshotAt, redirects>>

\* the timer of a delayed retry fires (or the task is cancelled, which ends
\* the delay at once): the child task returns and its done callback,
\* StartRequest, is handed to event_base_
DelayFires ==
    /\ Running
    /\ delays # <<>>
    /\ delays' = Tail(delays)
    /\ baseQ' = Add(baseQ, Closure("StartRequest", 0, NoConn, NoBatch,
                                   Head(delays).retryOf))
    /\ UNCHANGED <<envVars, etcd_consistent, etcd_quorum, conns_, leader_, nConns,
                   reqs, nextId, taskQ, key_, highest_index_seen_, task_, aborted,
                   delivered, produced, last, callerVars>>

\* the caller cancels the task it gave to Watch
Cancel ==
    /\ Running
    /\ task_.status = "ACTIVE"
    /\ ~task_.cancel_requested
    /\ task_' = [task_ EXCEPT !.cancel_requested = TRUE]
    /\ UNCHANGED <<envVars, etcd_consistent, etcd_quorum, conns_, leader_, nConns,
                   reqs, nextId, baseQ, taskQ, key_, highest_index_seen_, delays,
                   aborted, delivered, produced, last, callerVars>>

(***************************************************************************)
(* The closures of event_base_, in the order they were added.              *)
(***************************************************************************)
BaseHead(op) == Running /\ baseQ # <<>> /\ Head(baseQ).op = op

PoppedBase == [Began(Client, Head(baseQ).op, Head(baseQ).id) EXCEPT !.baseQ = Tail(@)]

\* a faulty event_base_ step that runs the Request on the leader current
\* when the closure runs; C27 does not hold of it
RunRequest_CurrentLeader ==
    /\ BaseHead("Run")
    /\ Becomes(RequestRun(PoppedBase, Head(baseQ).id, leader_))
    /\ UNCHANGED envVars

RunRequest ==
    /\ BaseHead("Run")
    /\ Becomes(RequestRun(PoppedBase, Head(baseQ).id, Head(baseQ).conn))
    /\ UNCHANGED envVars

\* what the caller's callback did with the invocations the decoder made
RECURSIVE InitialCalls(_, _, _)
InitialCalls(c, calls, cancelNow) ==
    IF calls = <<>> \/ c.aborted # "" THEN c
    ELSE InitialCalls(InitialGetAllDone(c, Head(calls).status, Head(calls).nodes,
                                        Head(calls).index, cancelNow),
                      Tail(calls), cancelNow)

\* history of a snapshot completion: the index and status the generic
\* response carried, and what came of it
SnapshotRecord(before, after, r) ==
    [after.last EXCEPT
        !.index = r.gen_resp_.etcd_index,
        !.ok = r.task_.status = "OK",
        !.read = IF r.task_.done_callback = "GetRequestDone"
                 THEN GetRequestDone(r.task_.status, r.gen_resp_.json_body,
                                     r.gen_resp_.etcd_index)[1].status
                 ELSE GetAllRequestDone(
                          r.task_.status, r.gen_resp_.json_body,
                          r.gen_resp_.etcd_index,
                          Ok(r.gen_resp_.json_body.node, "dir")
                             /\ r.gen_resp_.json_body.node.dir)[1].status,
        !.nodes = IF r.task_.done_callback = "GetRequestDone" THEN 1
                  ELSE IF Ok(r.gen_resp_.json_body.node, "nodes")
                  THEN Len(r.gen_resp_.json_body.nodes)
                  ELSE 0,
        !.outcome = IF after.aborted # "" THEN "abort"
                    ELSE IF after.produced > before.produced THEN "delivered"
                    ELSE "cancelled"]

\* the done callback of the task of Get: GetRequestDone, which calls
\* WatchState::InitialGetDone
SnapshotGetDone(cancelNow) ==
    /\ BaseHead("GetRequestDone")
    /\ cancelNow => ~task_.cancel_requested
    /\ LET id == Head(baseQ).id
           r == reqs[id]
           call == GetRequestDone(r.task_.status, r.gen_resp_.json_body,
                                  r.gen_resp_.etcd_index)[1]
           c1 == InitialGetDone(PoppedBase, call.status, call.node, call.index,
                                cancelNow)
       IN Becomes([DeleteWhenDone(c1, id) EXCEPT
                      !.last = SnapshotRecord(Client, c1, r)])
    /\ UNCHANGED envVars

\* the done callback of the task of GetAll: GetAllRequestDone, which calls
\* WatchState::InitialGetAllDone
SnapshotGetAllDone(cancelNow) ==
    /\ BaseHead("GetAllRequestDone")
    /\ cancelNow => ~task_.cancel_requested
    /\ LET id == Head(baseQ).id
           r == reqs[id]
           node == r.gen_resp_.json_body.node
           calls == GetAllRequestDone(r.task_.status, r.gen_resp_.json_body,
                                      r.gen_resp_.etcd_index,
                                      Ok(node, "dir") /\ node.dir)
           c1 == InitialCalls(PoppedBase, calls, cancelNow)
       IN Becomes([DeleteWhenDone(c1, id) EXCEPT
                      !.last = SnapshotRecord(Client, c1, r)])
    /\ UNCHANGED envVars

\* the done callback of a delayed retry
RetryStart ==
    /\ BaseHead("StartRequest")
    /\ Becomes(StartRequest(PoppedBase, Head(baseQ).retryOf))
    /\ UNCHANGED envVars

(***************************************************************************)
(* The closures of task_->executor(), in the order they were added.        *)
(***************************************************************************)
TaskHead(op) == Running /\ taskQ # <<>> /\ Head(taskQ).op = op

PoppedTask == [Began(Client, Head(taskQ).op, Head(taskQ).id) EXCEPT !.taskQ = Tail(@)]

\* bind(cb_, updates), added by InitialGetAllDone
DeliverInitial ==
    /\ TaskHead("cb_")
    /\ Becomes(Callback(PoppedTask, Head(taskQ).batch))
    /\ UNCHANGED envVars

\* what a poll's completion was made of
PollFailed(r) ==
    \/ r.task_.status # "OK"
    \/ ~r.gen_resp_.json_body.hasNode
    \/ UpdateForNode(r.gen_resp_.json_body.node).status # "OK"

\* history of a poll completion: the poll's waitIndex, the index the
\* generic response carried, and what came of it
PollRecord(before, after, id) ==
    LET r == before.reqs[id] IN
    [after.last EXCEPT
        !.waitIndex = atoll(r.params_["waitIndex"]),
        !.ok = ~PollFailed(r),
        !.index = r.gen_resp_.etcd_index,
        !.node = r.gen_resp_.json_body.node,
        !.outcome = IF after.aborted # "" THEN "abort"
                    ELSE IF after.produced > before.produced THEN "update"
                    ELSE IF Len(after.delays) > Len(before.delays) THEN "retry"
                    ELSE "cancelled"]

\* the done callback of the task of a poll
PollDone ==
    /\ TaskHead("WatchState::RequestDone")
    /\ LET id == Head(taskQ).id
           c1 == WatchStateRequestDone(PoppedTask, id)
       IN Becomes([DeleteWhenDone(c1, id) EXCEPT
                      !.last = PollRecord(Client, c1, id)])
    /\ UNCHANGED envVars

DeliverUpdates ==
    /\ TaskHead("SendUpdates")
    /\ Becomes(SendUpdates(PoppedTask, Head(taskQ).batch))
    /\ UNCHANGED envVars

(***************************************************************************)
(* The specification.                                                      *)
(***************************************************************************)
Next ==
    \/ \E watched \in BOOLEAN : StoreCommit(watched)
    \/ \E id \in DOMAIN reqs : StoreAnswersGet(id)
    \/ \E id \in DOMAIN reqs : \E n \in ChildCounts : StoreAnswersGetAll(id, n)
    \/ \E id \in DOMAIN reqs : \E hasValue \in BOOLEAN : StoreAnswersPoll(id, hasValue)
    \/ \E id \in DOMAIN reqs : \E ep \in Endpoints : StoreRedirects(id, TRUE, ep)
    \/ \E id \in DOMAIN reqs : StoreRedirects(id, FALSE, NoEndpoint)
    \/ \E id \in DOMAIN reqs : \E req \in Failures(reqs[id]) : RequestFails(id, req)
    \/ DelayFires
    \/ Cancel
    \/ RunRequest
    \/ \E cancelNow \in BOOLEAN : SnapshotGetDone(cancelNow)
    \/ \E cancelNow \in BOOLEAN : SnapshotGetAllDone(cancelNow)
    \/ RetryStart
    \/ DeliverInitial
    \/ PollDone
    \/ DeliverUpdates

Spec == Init /\ [][Next]_vars

\* The executors run the closures they hold, timers fire, and a request
\* that nothing answers times out (FLAGS_etcd_connection_timeout_seconds).
BaseHandlers ==
    \/ RunRequest
    \/ \E cancelNow \in BOOLEAN : SnapshotGetDone(cancelNow)
    \/ \E cancelNow \in BOOLEAN : SnapshotGetAllDone(cancelNow)
    \/ RetryStart

TaskHandlers == DeliverInitial \/ PollDone \/ DeliverUpdates

TimesOut == \E id \in DOMAIN reqs : RequestFails(id, NullResponse)

FairSpec ==
    /\ Spec
    /\ WF_vars(BaseHandlers)
    /\ WF_vars(TaskHandlers)
    /\ WF_vars(DelayFires)
    /\ WF_vars(TimesOut)

(***************************************************************************)
(* A caller issues one typed operation on a client that runs no watch; the *)
(* store answers it with any response, well formed or not.                 *)
(***************************************************************************)
OpKinds ==
    {"Get", "GetAll", "Create", "CreateWithTTL", "CreateInQueue", "Update",
     "UpdateWithTTL", "ForceSet", "ForceSetWithTTL", "Delete"}

\* the calls a caller makes: the operation and its arguments
Operations ==
    {[kind |-> k, key |-> IF k \in {"GetAll", "CreateInQueue"} THEN KeyDir ELSE KeyFile,
      value |-> IF k \in {"Get", "GetAll", "Delete"} THEN "" ELSE "bar",
      ttl |-> IF k \in {"CreateWithTTL", "UpdateWithTTL", "ForceSetWithTTL"}
              THEN 5 ELSE 0,
      index |-> IF k \in {"Update", "UpdateWithTTL", "Delete"} THEN 1 ELSE 0,
      params |-> <<>>, id |-> 0, decoded |-> FALSE, status |-> "",
      json_body |-> NullBody, etcd_index |-> -1] : k \in OpKinds}

\* the parameters the operation o hands to Generic
CallerParams(o) ==
    CASE o.kind \in {"Get", "GetAll"} -> NoParams
      [] o.kind \in {"Create", "CreateInQueue"} -> CreateParams(o.value)
      [] o.kind = "CreateWithTTL" -> CreateWithTTLParams(o.value, o.ttl)
      [] o.kind = "Update" -> UpdateParams(o.value, o.index)
      [] o.kind = "UpdateWithTTL" -> UpdateWithTTLParams(o.value, o.ttl, o.index)
      [] o.kind = "ForceSet" -> ForceSetParams(o.value)
      [] o.kind = "ForceSetWithTTL" -> ForceSetWithTTLParams(o.value, o.ttl)
      [] o.kind = "Delete" -> DeleteParams(o.index)

\* the client after the caller's call
Called(c, o) ==
    CASE o.kind = "Get" -> Get(c, o.key)
      [] o.kind = "GetAll" -> GetAll(c, o.key)
      [] o.kind = "Create" -> Create(c, o.key, o.value)
      [] o.kind = "CreateWithTTL" -> CreateWithTTL(c, o.key, o.value, o.ttl)
      [] o.kind = "CreateInQueue" -> CreateInQueue(c, o.key, o.value)
      [] o.kind = "Update" -> Update(c, o.key, o.value, o.index)
      [] o.kind = "UpdateWithTTL" -> UpdateWithTTL(c, o.key, o.value, o.ttl, o.index)
      [] o.kind = "ForceSet" -> ForceSet(c, o.key, o.value)
      [] o.kind = "ForceSetWithTTL" -> ForceSetWithTTL(c, o.key, o.value, o.ttl)
      [] o.kind = "Delete" -> Delete(c, o.key, o.index)

\* history of the operation when it is issued
Issued(o, id) == [o EXCEPT !.params = CallerParams(o), !.id = id]

IssueOp(o) ==
    /\ Running
    /\ issued = NoOp
    /\ Assign(Called(Began(Client, o.kind, nextId), o))
    /\ issued' = Issued(o, nextId)
    /\ UNCHANGED <<envVars, cbCalls, lock_, threads, hist>>

\* the bodies the store may send: none with a "node", a node with all the
\* fields of a key or all but one, created and modified at the same index
\* or not, and a directory node, with "dir" true, false or absent, with
\* or without "nodes", whose entries decode or not
Entry(i) == JsonNode(AllFields, 1, 1, ChildKey(KeyDir, i), "bar", FALSE)

BadEntry(i) == JsonNode(AllFields \ {"value"}, 1, 1, ChildKey(KeyDir, i), "", FALSE)

OpBodies ==
    {MessageBody}
    \cup {JsonBody(TRUE, JsonNode(AllFields \ missing, 1, modified, KeyFile, "bar", FALSE),
                   <<>>) :
             missing \in {{}} \cup {{f} : f \in AllFields}, modified \in {1, 2}}
    \cup {JsonBody(TRUE, JsonNode({"key"} \cup dir, 1, 1, KeyDir, "", isDir), <<>>) :
             dir \in {{}, {"dir"}}, isDir \in BOOLEAN}
    \cup {JsonBody(TRUE, JsonNode({"key", "nodes"} \cup dir, 1, 1, KeyDir, "", isDir),
                   entries) :
             dir \in {{}, {"dir"}}, isDir \in BOOLEAN,
             entries \in {<<>>, <<Entry(1), Entry(2)>>, <<Entry(1), BadEntry(2)>>,
                          <<NotAnObject>>}}

OpCodes == {200, 201, 400, 403, 404, 412, 500}

OpResponses ==
    {Response(code, h, MessageBody) :
        code \in OpCodes \ {200, 201}, h \in {IndexHeader, NoHeader}}
    \cup {Response(200, h, body) : h \in {IndexHeader, NoHeader}, body \in OpBodies}
    \cup {Response(201, IndexHeader,
                   JsonBody(TRUE, JsonNode(AllFields, 1, 1, KeyFile, "bar", FALSE), <<>>))}

\* the store answers the operation
OpAnswered(id, req) ==
    /\ InFlight(id)
    /\ req \in OpResponses
    /\ Completes(id, req)
    /\ UNCHANGED envVars

TypedDone ==
    {"GetRequestDone", "GetAllRequestDone", "CreateRequestDone",
     "CreateInQueueRequestDone", "UpdateRequestDone", "ForceSetRequestDone",
     "DeleteRequestDone"}

\* what the done callback of the task of Request r does
Decoded(r) ==
    LET status == r.task_.status
        json_body == r.gen_resp_.json_body
        etcd_index == r.gen_resp_.etcd_index
        cb == r.task_.done_callback
    IN CASE cb = "GetRequestDone" -> GetRequestDone(status, json_body, etcd_index)
         [] cb = "GetAllRequestDone" ->
               GetAllRequestDone(status, json_body, etcd_index,
                                 Ok(json_body.node, "dir") /\ json_body.node.dir)
         [] cb = "CreateRequestDone" -> CreateRequestDone(status, json_body, etcd_index)
         [] cb = "CreateInQueueRequestDone" ->
               CreateInQueueRequestDone(status, json_body, etcd_index)
         [] cb = "UpdateRequestDone" -> UpdateRequestDone(status, json_body, etcd_index)
         [] cb = "ForceSetRequestDone" ->
               ForceSetRequestDone(status, json_body, etcd_index)
         [] cb = "DeleteRequestDone" -> DeleteRequestDone(status, json_body, etcd_index)

IsCall(d) == "check" \notin DOMAIN d

\* event_base_ runs the done callback of the operation's task: the decoder
\* invokes the caller's callback, or stops the process on a CHECK
OpDone ==
    /\ Running
    /\ baseQ # <<>>
    /\ Head(baseQ).op \in TypedDone
    /\ LET id == Head(baseQ).id
           r == reqs[id]
           d == Decoded(r)
           c1 == DeleteWhenDone(PoppedBase, id)
       IN /\ Assign(IF \E i \in 1 .. Len(d) : ~IsCall(d[i])
                    THEN Abort(c1, d[Len(d)].check)
                    ELSE c1)
          /\ cbCalls' = cbCalls \o SelectSeq(d, IsCall)
          /\ issued' = [issued EXCEPT !.decoded = TRUE,
                                      !.status = r.task_.status,
                                      !.json_body = r.gen_resp_.json_body,
                                      !.etcd_index = r.gen_resp_.etcd_index]
    /\ UNCHANGED <<envVars, lock_, threads, hist>>

\* the store's index is beyond the indices of the nodes it holds; the flags
\* are on or off
OpInit ==
    /\ storeIndex = MaxIndex
    /\ changes = {1}
    /\ snapshotAt = 0
    /\ failures = 0
    /\ redirects = 0
    /\ NoCallers
    /\ \E consistent \in BOOLEAN : \E quorum \in BOOLEAN :
          Starts(NewEtcdClient(EndpointA, consistent, quorum))

OpNext ==
    \/ \E o \in Operations : IssueOp(o)
    \/ RunRequest
    \/ \E id \in DOMAIN reqs : \E req \in OpResponses : OpAnswered(id, req)
    \/ \E id \in DOMAIN reqs : \E ep \in Endpoints : StoreRedirects(id, TRUE, ep)
    \/ \E id \in DOMAIN reqs : StoreRedirects(id, FALSE, NoEndpoint)
    \/ TimesOut
    \/ OpDone

OpSpec == OpInit /\ [][OpNext]_vars

\* event_base_ runs the closures it holds, and a request that nothing
\* answers times out
OpFairSpec ==
    /\ OpSpec
    /\ WF_vars(RunRequest \/ OpDone)
    /\ WF_vars(TimesOut)

(***************************************************************************)
(* The parameters of Generic: a caller issues a typed operation, or a      *)
(* WatchState that has seen some index issues its poll, with the flags on  *)
(* or off.                                                                 *)
(***************************************************************************)
\* the parameters StartRequest hands to Generic
PollParams(highest) ==
    [wait |-> "true", waitIndex |-> to_string(highest + 1), recursive |-> "true"]

IssuePoll ==
    /\ Running
    /\ issued = NoOp
    /\ Assign(StartRequest(Began(Client, "StartRequest", nextId), -1))
    /\ issued' = [NoOp EXCEPT !.kind = "StartRequest", !.key = key_,
                              !.params = PollParams(highest_index_seen_),
                              !.id = nextId]
    /\ UNCHANGED <<envVars, cbCalls, lock_, threads, hist>>

\* parameter maps a caller of the public Generic can pass
GenericParams ==
    {NoParams,
     [recursive |-> "true"],
     [consistent |-> "false"],
     [quorum |-> "false"],
     [wait |-> "true"],
     [wait |-> "true", quorum |-> "true"]}

\* a caller calls Generic itself, with its own task
IssueGeneric(params) ==
    /\ Running
    /\ issued = NoOp
    /\ Assign(Generic(Began(Client, "Generic", nextId), KeyFile, params, "GET",
                      FALSE, Task("done", "event_base_")))
    /\ issued' = [NoOp EXCEPT !.kind = "Generic", !.key = KeyFile,
                              !.params = params, !.id = nextId]
    /\ UNCHANGED <<envVars, cbCalls, lock_, threads, hist>>

ParamInit ==
    /\ StoreStarts
    /\ NoCallers
    /\ \E consistent \in BOOLEAN : \E quorum \in BOOLEAN :
       \E key \in {KeyFile, KeyDir} : \E highest \in -1 .. MaxIndex :
          Starts([NewEtcdClient(EndpointA, consistent, quorum) EXCEPT
                     !.key_ = key, !.highest_index_seen_ = highest])

ParamNext ==
    \/ \E o \in Operations : IssueOp(o)
    \/ IssuePoll
    \/ \E params \in GenericParams : IssueGeneric(params)

ParamSpec == ParamInit /\ [][ParamNext]_vars

(***************************************************************************)
(* GetConnection, GetLeader and UpdateLeader called from several threads.  *)
(* A thread's call is a sequence of steps, one per access to lock_, conns_ *)
(* or leader_; threads[t].pc is the step thread t takes next.              *)
(***************************************************************************)
Threads == {1, 2}
MaxCalls == 2

Idle == [op |-> "", ep |-> NoEndpoint, pc |-> "", conn |-> NoConn, calls |-> 0]

\* what the steps of the three functions leave alone
notConnVars ==
    <<envVars, etcd_consistent, etcd_quorum, reqs, nextId, baseQ, taskQ, key_,
      highest_index_seen_, task_, delays, aborted, delivered, produced, last,
      issued, cbCalls>>

\* thread t enters one of the three functions; GetLeader and UpdateLeader
\* begin with lock_guard, GetConnection with conns_.find
ThreadCalls(t, fn, host_port) ==
    /\ threads[t].op = ""
    /\ threads[t].calls < MaxCalls
    /\ threads' = [threads EXCEPT ![t] =
                      [op |-> fn, ep |-> host_port,
                       pc |-> IF fn = "GetConnection" THEN "find" ELSE "lock",
                       conn |-> NoConn, calls |-> @.calls + 1]]
    /\ UNCHANGED <<notConnVars, conns_, leader_, nConns, lock_, hist>>

\* lock_guard<mutex> lock(lock_) of GetLeader and UpdateLeader
ThreadLocks(t) ==
    /\ threads[t].pc = "lock"
    /\ lock_ = 0
    /\ lock_' = t
    /\ threads' = [threads EXCEPT ![t].pc =
                      IF threads[t].op = "GetLeader" THEN "read" ELSE "find"]
    /\ UNCHANGED <<notConnVars, conns_, leader_, nConns, hist>>

\* another thread is about to write conns_
WriterBeside(t) == \E u \in Threads \ {t} : threads[u].pc = "insert"

\* another thread is about to read or write conns_
AccessBeside(t) == \E u \in Threads \ {t} : threads[u].pc \in {"find", "insert"}

\* conns_.find(host_port) of GetConnection and what follows it up to the
\* insert: the connection found, or a new one.  A find beside another
\* thread's insert is a data race; it sees the entry or misses it.
ThreadFinds(t) ==
    /\ threads[t].pc = "find"
    /\ \E found \in {threads[t].ep \in DOMAIN conns_}
                    \cup (IF WriterBeside(t) THEN {FALSE} ELSE {}) :
          IF found
          THEN /\ threads' = [threads EXCEPT ![t].pc = "got",
                                             ![t].conn = conns_[threads[t].ep]]
               /\ nConns' = nConns
          ELSE /\ threads' = [threads EXCEPT
                                 ![t].pc = "insert",
                                 ![t].conn = NewConn(threads[t].ep, nConns + 1)]
               /\ nConns' = nConns + 1
    /\ hist' = [hist EXCEPT !.race = @ \/ WriterBeside(t)]
    /\ UNCHANGED <<notConnVars, conns_, leader_, lock_>>

\* the maps conns_.insert can leave: the entry added if the key is new (the
\* map is left alone if the key is there); when the insert races with
\* another thread's access the behaviour is undefined, and the map may
\* also be left without the new entry or without an older one
InsertOutcomes(t) ==
    LET ep == threads[t].ep
        inserted == IF ep \in DOMAIN conns_ THEN conns_
                    ELSE (ep :> threads[t].conn) @@ conns_
    IN {inserted}
       \cup (IF AccessBeside(t)
             THEN {conns_}
                  \cup {[e \in DOMAIN inserted \ {lost} |-> inserted[e]] :
                           lost \in DOMAIN inserted}
             ELSE {})

\* conns_.insert(make_pair(host_port, conn)) of GetConnection
ThreadInserts(t) ==
    /\ threads[t].pc = "insert"
    /\ \E map \in InsertOutcomes(t) : conns_' = map
    /\ threads' = [threads EXCEPT ![t].pc = "got"]
    /\ hist' = [hist EXCEPT !.race = @ \/ AccessBeside(t),
                            !.requested = @ \cup {threads[t].ep}]
    /\ UNCHANGED <<notConnVars, leader_, nConns, lock_>>

\* return conn of GetConnection, called by the thread itself
ThreadReturns(t) ==
    /\ threads[t].pc = "got"
    /\ threads[t].op = "GetConnection"
    /\ threads' = [threads EXCEPT ![t].op = "", ![t].pc = ""]
    /\ hist' = [hist EXCEPT !.held = @ \cup {threads[t].conn}]
    /\ UNCHANGED <<notConnVars, conns_, leader_, nConns, lock_>>

\* leader_ = GetConnection(host, port); return leader_ of UpdateLeader,
\* and the end of its lock_guard
ThreadAssignsLeader(t) ==
    /\ threads[t].pc = "got"
    /\ threads[t].op = "UpdateLeader"
    /\ lock_ = t
    /\ leader_' = threads[t].conn
    /\ lock_' = 0
    /\ threads' = [threads EXCEPT ![t].op = "", ![t].pc = ""]
    /\ hist' = [hist EXCEPT !.held = @ \cup {threads[t].conn}]
    /\ UNCHANGED <<notConnVars, conns_, nConns>>

\* return leader_ of GetLeader, and the end of its lock_guard
ThreadReadsLeader(t) ==
    /\ threads[t].pc = "read"
    /\ lock_ = t
    /\ lock_' = 0
    /\ threads' = [threads EXCEPT ![t].op = "", ![t].pc = "", ![t].conn = leader_]
    /\ hist' = [hist EXCEPT !.held = @ \cup {leader_}]
    /\ UNCHANGED <<notConnVars, conns_, leader_, nConns>>

RaceInit ==
    /\ StoreStarts
    /\ issued = NoOp
    /\ cbCalls = <<>>
    /\ lock_ = 0
    /\ threads = [t \in Threads |-> Idle]
    /\ hist = [NoHist EXCEPT !.requested = {EndpointA}]
    /\ Starts(NewEtcdClient(EndpointA, TRUE, TRUE))

RaceNext ==
    \E t \in Threads :
        \/ \E fn \in {"GetConnection", "GetLeader", "UpdateLeader"} :
           \E host_port \in Endpoints : ThreadCalls(t, fn, host_port)
        \/ ThreadLocks(t)
        \/ ThreadFinds(t)
        \/ ThreadInserts(t)
        \/ ThreadReturns(t)
        \/ ThreadAssignsLeader(t)
        \/ ThreadReadsLeader(t)

RaceSpec == RaceInit /\ [][RaceNext]_vars

(***************************************************************************)
(* GetConnection, UpdateLeader and GetLeader called one after another.     *)
(* hist keeps the last call, the endpoints asked for so far, the first     *)
(* connection returned for each, and the endpoint of the last              *)
(* UpdateLeader (of the constructor before any).                           *)
(***************************************************************************)
EndpointC == <<"c", 4001>>
ConnEndpoints == Endpoints \cup {EndpointC}

\* hist after a call for host_port has returned conn
Asked(fn, host_port, conn) ==
    [hist EXCEPT !.call = fn, !.ep = host_port, !.returned = conn,
                 !.requested = @ \cup {host_port},
                 !.first = IF host_port \in DOMAIN @ THEN @
                           ELSE (host_port :> conn) @@ @,
                 !.leader = IF fn = "UpdateLeader" THEN host_port ELSE @]

CallGetConnection(host_port) ==
    LET g == GetConnection(Client, host_port) IN
    /\ Assign(g.c)
    /\ hist' = Asked("GetConnection", host_port, g.conn)
    /\ UNCHANGED <<envVars, issued, cbCalls, lock_, threads>>

CallUpdateLeader(host_port) ==
    LET u == UpdateLeader(Client, host_port) IN
    /\ Assign(u.c)
    /\ hist' = Asked("UpdateLeader", host_port, u.conn)
    /\ UNCHANGED <<envVars, issued, cbCalls, lock_, threads>>

CallGetLeader ==
    /\ hist' = [hist EXCEPT !.call = "GetLeader", !.ep = NoEndpoint,
                            !.returned = GetLeader(Client)]
    /\ UNCHANGED <<envVars, clientVars, issued, cbCalls, lock_, threads>>

ConnInit ==
    /\ StoreStarts
    /\ issued = NoOp
    /\ cbCalls = <<>>
    /\ lock_ = 0
    /\ threads = <<>>
    /\ \E host_port \in ConnEndpoints :
          /\ Starts(NewEtcdClient(host_port, TRUE, TRUE))
          /\ hist = [NoHist EXCEPT
                        !.requested = {host_port},
                        !.first = (host_port :>
                                      NewEtcdClient(host_port, TRUE, TRUE).leader_),
                        !.leader = host_port]

ConnNext ==
    \/ \E host_port \in ConnEndpoints : CallGetConnection(host_port)
    \/ \E host_port \in ConnEndpoints : CallUpdateLeader(host_port)
    \/ CallGetLeader

ConnSpec == ConnInit /\ [][ConnNext]_vars

(***************************************************************************)
(* Several operations at once: a caller issues up to MaxOps operations     *)
(* before the first has completed, and the store answers, redirects or     *)
(* lets them time out.  hist.first keeps, for each Request, the leader     *)
(* connection at the time Generic was called for it.                       *)
(***************************************************************************)
MaxOps == 2

\* the operations the caller issues here
LeaderOps == {o \in Operations : o.kind \in {"Get", "Delete"}}

LeaderCalls(o) ==
    /\ Running
    /\ nextId <= MaxOps
    /\ Assign(Called(Began(Client, o.kind, nextId), o))
    /\ hist' = [hist EXCEPT !.first = (nextId :> GetLeader(Client)) @@ @]
    /\ UNCHANGED <<envVars, issued, cbCalls, lock_, threads>>

\* the answers of the store: the key, or that there is none
LeaderResponses ==
    {Response(200, IndexHeader,
              JsonBody(TRUE, JsonNode(AllFields, 1, 1, KeyFile, "bar", FALSE), <<>>)),
     Response(404, IndexHeader, MessageBody)}

LeaderAnswered(id, req) ==
    /\ InFlight(id)
    /\ req \in LeaderResponses
    /\ Completes(id, req)
    /\ UNCHANGED envVars

\* event_base_ runs the done callback of an operation's task
LeaderDone ==
    /\ Running
    /\ baseQ # <<>>
    /\ Head(baseQ).op \in TypedDone
    /\ LET id == Head(baseQ).id
           d == Decoded(reqs[id])
       IN /\ Assign(DeleteWhenDone(PoppedBase, id))
          /\ cbCalls' = cbCalls \o SelectSeq(d, IsCall)
    /\ UNCHANGED <<envVars, issued, lock_, threads, hist>>

LeaderInit ==
    /\ StoreStarts
    /\ NoCallers
    /\ Starts(NewEtcdClient(EndpointA, TRUE, TRUE))

LeaderNext ==
    \/ \E o \in LeaderOps : LeaderCalls(o)
    \/ RunRequest
    \/ \E id \in DOMAIN reqs : \E req \in LeaderResponses : LeaderAnswered(id, req)
    \/ \E id \in DOMAIN reqs : \E ep \in Endpoints : StoreRedirects(id, TRUE, ep)
    \/ \E id \in DOMAIN reqs : StoreRedirects(id, FALSE, NoEndpoint)
    \/ TimesOut
    \/ LeaderDone

LeaderSpec == LeaderInit /\ [][LeaderNext]_vars

(***************************************************************************)
(* Properties.                                                             *)
(***************************************************************************)
CheckLE == "CHECK_LE(highest_index_seen_, etcd_index)"

\* the positions in "delivered" of the batches that came from a poll
PollBatches == {i \in 1 .. Len(delivered) : delivered[i].src = "poll"}

\* the modified_index of the updates of batch i
ModifiedIn(i) == {delivered[i].modified[k] : k \in 1 .. Len(delivered[i].modified)}

\* the changes committed to the watched key after the snapshot was taken
ChangesAfterSnapshot == {c \in changes : snapshotAt > 0 /\ c > snapshotAt}

\* C1: every change committed to the watched key after the snapshot reaches
\* the callback exactly once and in increasing modified_index order: the
\* updates delivered from polls have strictly increasing modified_index, an
\* update is delivered only after every earlier change was, and no poll
\* waits at an index beyond a change that was never delivered.
C1_ExactlyOnceInOrder ==
    /\ \A i \in PollBatches : \A j \in PollBatches :
          i < j => \A a \in ModifiedIn(i) : \A b \in ModifiedIn(j) : a < b
    /\ \A j \in PollBatches : \A m \in ModifiedIn(j) : \A c \in ChangesAfterSnapshot :
          c < m => \E i \in PollBatches : i < j /\ c \in ModifiedIn(i)
    /\ \A id \in DOMAIN reqs :
          IsLongPoll(reqs[id]) =>
             \A c \in ChangesAfterSnapshot :
                c < atoll(reqs[id].params_["waitIndex"]) =>
                   \/ \E i \in PollBatches : c \in ModifiedIn(i)
                   \/ \E q \in 1 .. Len(taskQ) :
                         /\ taskQ[q].op = "SendUpdates"
                         /\ \E k \in 1 .. Len(taskQ[q].batch.updates) :
                               taskQ[q].batch.updates[k].node.modified_index = c

\* the key was read at index 1 and written at 2 and 3; the poll waiting at 2
\* was answered with the change 2 and the store index 3, and the next poll
\* waits at 4 although the change 3 was never delivered
C1_Witness ==
    /\ key_ = KeyFile
    /\ snapshotAt = 1
    /\ changes = {1, 2, 3}
    /\ \E i \in PollBatches : delivered[i].modified = <<2>>
    /\ \A i \in PollBatches : 3 \notin ModifiedIn(i)
    /\ \E id \in DOMAIN reqs :
          IsLongPoll(reqs[id]) /\ reqs[id].params_["waitIndex"] = "4"

\* C2: whenever StartRequest issues a poll, the callback has returned for
\* every batch produced so far, the snapshot batch included.
C2_PollOnlyAfterCallbackReturned == last.started => last.undelivered = 0

\* the snapshot handler issued the first poll while the snapshot batch was
\* still waiting in the executor
C2_Witness ==
    /\ last.handler \in {"GetRequestDone", "GetAllRequestDone"}
    /\ last.started
    /\ last.undelivered = 1
    /\ delivered = <<>>

\* C3: the callback receives the batches in the order they were produced,
\* the snapshot batch first and every poll batch after all batches produced
\* before it.
C3_DeliveriesInProductionOrder ==
    \A i \in 1 .. Len(delivered) :
        /\ delivered[i].bid = i
        /\ (i = 1) <=> (delivered[i].src = "snapshot")

\* a poll batch was delivered after the snapshot batch
C3_Witness ==
    /\ Len(delivered) >= 2
    /\ delivered[1].src = "snapshot"
    /\ delivered[2].src = "poll"

\* C4: once cancellation is requested the callback is never invoked again.
C4_NoCallbackAfterCancel ==
    \A i \in 1 .. Len(delivered) : ~delivered[i].cancelled

\* a batch reached the callback after cancellation had been requested
C4_Witness ==
    \E i \in 1 .. Len(delivered) : delivered[i].cancelled

\* C5: once cancellation is requested the handle is eventually resolved, and
\* CANCELLED is the only status it is ever resolved with.
C5_CancelResolvesCancelled ==
    /\ task_.cancel_requested ~> (task_.status = "CANCELLED")
    /\ [](task_.status \in {"ACTIVE", "CANCELLED"})

\* the watch was cancelled, its poll timed out, and the process stopped on
\* the CHECK_LE with the handle unresolved
C5_Witness ==
    /\ aborted = CheckLE
    /\ task_.cancel_requested
    /\ task_.status = "ACTIVE"
    /\ last.index = -1

\* C6: a poll of an uncancelled watch that fails (failure status, no
\* "node", node that does not decode) delivers no update, and the poll
\* issued after the retry delay carries the waitIndex of the failed poll.
C6_RetrySameWaitIndex ==
    /\ (last.handler = "WatchState::RequestDone" /\ ~last.ok) =>
           last.outcome # "update"
    /\ (last.handler = "StartRequest" /\ last.started) =>
           last.waitIndex = last.retryOf

\* the poll waiting at 2 failed with the store index 2, and its retry waits
\* at 3
C6_Witness ==
    /\ key_ = KeyFile
    /\ snapshotAt = 1
    /\ last.handler = "StartRequest"
    /\ last.started
    /\ last.retryOf = 2
    /\ last.waitIndex = 3

\* C7: after the snapshot response and after each processed poll response,
\* highest_index_seen_ is the store index that response carried, and every
\* poll is issued with waitIndex = highest_index_seen_ + 1.
C7_HighestIsResponseIndex ==
    /\ (last.handler \in {"GetRequestDone", "GetAllRequestDone"}
        /\ last.outcome = "delivered") =>
           highest_index_seen_ = last.index
    /\ (last.handler = "WatchState::RequestDone"
        /\ last.outcome \in {"update", "retry", "cancelled"}) =>
           highest_index_seen_ = last.index
    /\ last.started => last.waitIndex = last.highest + 1

\* the snapshot of an empty directory carried the store index 1, and left
\* highest_index_seen_ at -1 and the first poll waiting at 0
C7_Witness ==
    /\ key_ = KeyDir
    /\ last.handler = "GetAllRequestDone"
    /\ last.outcome = "delivered"
    /\ last.index = 1
    /\ highest_index_seen_ = -1
    /\ last.started
    /\ last.waitIndex = 0

\* C8: highest_index_seen_ never decreases and the CHECK_LE of the poll
\* completion handler never fails.
C8_HighestMonotonic ==
    /\ [][highest_index_seen_' >= highest_index_seen_]_vars
    /\ [](aborted # CheckLE)

\* a poll of an uncancelled watch failed without a response after the
\* snapshot, and the CHECK_LE failed
C8_Witness ==
    /\ aborted = CheckLE
    /\ ~task_.cancel_requested
    /\ highest_index_seen_ >= 0
    /\ last.index = -1

\* C9: every failed poll of an uncancelled watch leads to a delayed retry:
\* the watch neither aborts nor delivers anything for it.
C9_FailureLeadsToRetry ==
    (last.handler = "WatchState::RequestDone" /\ ~last.ok /\ ~last.cancelled) =>
        last.outcome = "retry"

\* a poll of an uncancelled watch failed and the process stopped on a CHECK
\* with no retry scheduled
C9_Witness ==
    /\ last.handler = "WatchState::RequestDone"
    /\ ~last.ok
    /\ ~last.cancelled
    /\ last.outcome = "abort"
    /\ delays = <<>>

\* the closures that hold the done callback of the task of Request id
DoneClosures(id) ==
    {i \in 1 .. Len(baseQ) : baseQ[i].id = id /\ baseQ[i].op # "Run"}
    \cup {-i : i \in {k \in 1 .. Len(taskQ) : taskQ[k].id = id}}

\* C10: a 307 response with a location header sets the leader to the
\* connection of that endpoint and re-runs the same Request on it, without
\* resolving the operation's task or running its callback; the task is
\* resolved, once, by the attempt that was not redirected.
C10_RedirectIsTransparent ==
    last.handler = "EtcdClient::RequestDone" =>
        /\ last.outcome = "redirect" =>
              /\ last.ep \in DOMAIN conns_
              /\ leader_ = conns_[last.ep]
              /\ leader_.ep = last.ep
              /\ reqs[last.id].req_
              /\ reqs[last.id].conn_.ep = last.ep
              /\ reqs[last.id].conn_.serial = leader_.serial
              /\ reqs[last.id].task_.status = "ACTIVE"
              /\ DoneClosures(last.id) = {}
        /\ last.outcome = "return" =>
              /\ ~reqs[last.id].req_
              /\ (reqs[last.id].task_.status = "OK") <=> last.ok
              /\ Cardinality(DoneClosures(last.id)) = 1

\* a request was redirected from endpoint a to endpoint b and is running
\* there for the second time
C10_Witness ==
    /\ last.handler = "EtcdClient::RequestDone"
    /\ last.outcome = "redirect"
    /\ last.ep = EndpointB
    /\ reqs[last.id].runs = 2
    /\ leader_.ep = EndpointB

\* the Request of the typed operation, while it is alive
OpRequest == IF issued.kind # "" /\ issued.id \in DOMAIN reqs THEN {issued.id} ELSE {}

\* the task of the operation was resolved
OpResolved == \E id \in OpRequest : reqs[id].task_.returns >= 1

\* C11: the handle of an operation issued through Generic is resolved
\* exactly once, by the first completion that is not a redirect and not
\* before it, and it is resolved eventually when the 307 responses are
\* finitely many.
C11_ResolvedExactlyOnce ==
    /\ [](\A id \in OpRequest :
            /\ reqs[id].task_.returns <= 1
            /\ (reqs[id].task_.returns = 1) <=> (reqs[id].task_.status # "ACTIVE")
            /\ reqs[id].task_.returns = 1 =>
                  /\ ~reqs[id].req_
                  /\ last.handler = "EtcdClient::RequestDone"
                  /\ last.id = id
                  /\ last.outcome = "return")
    /\ [](issued.decoded => OpRequest = {})
    /\ (issued.kind # "") ~> (OpResolved \/ issued.decoded)

\* the operation was answered 307 without a location header and the
\* process stopped with the handle unresolved
C11_Witness ==
    /\ issued.kind # ""
    /\ aborted = "CHECK_NOTNULL(location)"
    /\ \E id \in OpRequest : reqs[id].task_.returns = 0 /\ reqs[id].task_.status = "ACTIVE"

\* C12: an absent response completes the operation with UNKNOWN and index
\* -1: the task returns UNKNOWN with no body and index -1, the Request is
\* not run again, the leader stays as it was, and the caller's callback
\* receives UNKNOWN and index -1, once.
C12_AbsentResponseIsUnknown ==
    /\ (last.handler = "EtcdClient::RequestDone" /\ last.null) =>
          /\ aborted = ""
          /\ last.outcome = "return"
          /\ leader_ = last.leader
          /\ \A id \in {last.id} \cap DOMAIN reqs :
                /\ reqs[id].task_.status = "UNKNOWN"
                /\ reqs[id].task_.returns = 1
                /\ reqs[id].gen_resp_ = [etcd_index |-> -1, json_body |-> NullBody]
                /\ ~reqs[id].req_
                /\ reqs[id].conn_ = NoConn
          /\ \A i \in 1 .. Len(baseQ) : baseQ[i].op # "Run"
    /\ (issued.decoded /\ issued.json_body.null) =>
          /\ Len(cbCalls) = 1
          /\ cbCalls[1].status = "UNKNOWN"
          /\ cbCalls[1].index = -1

\* an operation redirected to endpoint b timed out there, and its callback
\* received the outcome
C12_Witness ==
    /\ issued.decoded
    /\ issued.json_body.null
    /\ issued.status = "UNKNOWN"
    /\ leader_.ep = EndpointB
    /\ cbCalls # <<>>

\* the parameters the claim expects to be sent for the caller's parameters
ExpectedParams(caller) ==
    LET added == (IF etcd_consistent THEN {"consistent"} ELSE {})
                 \cup (IF etcd_quorum /\ "wait" \notin DOMAIN caller
                       THEN {"quorum"} ELSE {})
    IN [k \in DOMAIN caller \cup added |->
           IF k \in DOMAIN caller THEN caller[k] ELSE "true"]

\* C13 as stated: the parameters sent are the caller's, unchanged, plus
\* consistent=true when the consistent flag is on, plus quorum=true when
\* the quorum flag is on and the caller's parameters hold no "wait"; a
\* request with "wait" never carries quorum.
C13_SentParameters ==
    \A id \in OpRequest :
        /\ reqs[id].params_ = ExpectedParams(issued.params)
        /\ "wait" \in DOMAIN reqs[id].params_ => "quorum" \notin DOMAIN reqs[id].params_

\* the keys Generic writes itself
FlagKeys == {"consistent", "quorum"}

\* C13, amended: the parameters sent are the caller's with consistent set
\* to true when the consistent flag is on and quorum set to true when the
\* quorum flag is on and the caller's parameters hold no "wait"; every
\* caller parameter other than consistent and quorum is sent unchanged, a
\* caller's consistent or quorum is sent unchanged where Generic does not
\* set it, and a request with "wait" carries quorum only if the caller
\* supplied it.
C13_SentParametersForced ==
    \A id \in OpRequest :
        LET caller == issued.params
            sent == reqs[id].params_
            setsConsistent == etcd_consistent
            setsQuorum == etcd_quorum /\ "wait" \notin DOMAIN caller
        IN /\ DOMAIN sent = DOMAIN caller
                            \cup (IF setsConsistent THEN {"consistent"} ELSE {})
                            \cup (IF setsQuorum THEN {"quorum"} ELSE {})
           /\ \A k \in DOMAIN caller \ FlagKeys : sent[k] = caller[k]
           /\ setsConsistent => sent["consistent"] = "true"
           /\ setsQuorum => sent["quorum"] = "true"
           /\ (~setsConsistent /\ "consistent" \in DOMAIN caller) =>
                 sent["consistent"] = caller["consistent"]
           /\ (~setsQuorum /\ "quorum" \in DOMAIN caller) =>
                 sent["quorum"] = caller["quorum"]
           /\ ("wait" \in DOMAIN sent /\ "quorum" \notin DOMAIN caller) =>
                 "quorum" \notin DOMAIN sent

\* a poll was issued with both flags on: it carries consistent and no quorum
C13_Witness ==
    /\ issued.kind = "StartRequest"
    /\ etcd_consistent
    /\ etcd_quorum
    /\ \E id \in OpRequest :
          DOMAIN reqs[id].params_ = {"wait", "waitIndex", "recursive", "consistent"}

\* C14: threads calling GetConnection, GetLeader and UpdateLeader in any
\* interleaving never access conns_ or leader_ unsynchronized while one
\* of them writes it; every connection handed out for an endpoint is the
\* one conns_ holds for it (no two connections for one endpoint), and no
\* entry put in conns_ is lost.
C14_ConcurrentCallsSynchronized ==
    /\ ~hist.race
    /\ \A conn \in hist.held \cup {leader_} :
          conn.ep \in DOMAIN conns_ /\ conns_[conn.ep] = conn
    /\ hist.requested \subseteq DOMAIN conns_

\* a GetConnection raced with an UpdateLeader and the leader is a second
\* connection for its endpoint
C14_Witness ==
    /\ hist.race
    /\ leader_.ep \in DOMAIN conns_
    /\ conns_[leader_.ep] # leader_
    /\ \A t \in Threads : threads[t].op = ""

\* C15: after any sequence of GetConnection and UpdateLeader calls conns_
\* holds exactly one connection for each endpoint ever asked for, each
\* still the connection first returned for it (none removed or replaced,
\* and every later call for the endpoint returns it), and GetLeader
\* returns the connection of the endpoint of the most recent UpdateLeader
\* (of the constructor if there was none).
C15_OneConnectionPerEndpoint ==
    /\ DOMAIN conns_ = hist.requested
    /\ DOMAIN hist.first = hist.requested
    /\ \A ep \in hist.requested :
          /\ conns_[ep] = hist.first[ep]
          /\ conns_[ep].ep = ep
          /\ ~conns_[ep].null
    /\ \A e1 \in DOMAIN conns_ : \A e2 \in DOMAIN conns_ :
          conns_[e1] = conns_[e2] => e1 = e2
    /\ hist.call \in {"GetConnection", "UpdateLeader"} =>
          hist.returned = hist.first[hist.ep]
    /\ GetLeader(Client) = conns_[hist.leader]
    /\ hist.call = "GetLeader" => hist.returned = conns_[hist.leader]

\* three endpoints were asked for, the last call was a GetConnection for an
\* endpoint already in the map, and the leader is not the constructor's
C15_Witness ==
    /\ hist.requested = ConnEndpoints
    /\ hist.call = "GetConnection"
    /\ hist.returned.serial < nConns
    /\ hist.leader # hist.returned.ep
    /\ leader_.serial # 1

\* the decoder of the issued operation ran on an OK status with this kind
DecodedOK(kind) ==
    /\ issued.kind = kind
    /\ issued.decoded
    /\ issued.status = "OK"

\* the body's node says dir = false
NotADirectory(json_body) ==
    /\ json_body.hasNode
    /\ Ok(json_body.node, "dir")
    /\ ~json_body.node.dir

\* C16: a GetAll whose response node has dir=false delivers
\* INVALID_ARGUMENT with an empty list to the caller, and nothing else,
\* with or without a 'nodes' array in the body.
C16_NotADirectoryIsInvalidArgument ==
    (DecodedOK("GetAll") /\ NotADirectory(issued.json_body)) =>
        cbCalls = <<GetAllCall("INVALID_ARGUMENT", <<>>, -1)>>

\* the callback of a GetAll on a file node was invoked a second time, with OK
C16_Witness ==
    /\ DecodedOK("GetAll")
    /\ NotADirectory(issued.json_body)
    /\ Ok(issued.json_body.node, "nodes")
    /\ Len(cbCalls) = 2
    /\ cbCalls[1].status = "INVALID_ARGUMENT"
    /\ cbCalls[2].status = "OK"

\* a body the decoder of the operation accepts
WellFormed(kind, json_body) ==
    CASE kind = "Get" ->
            json_body.hasNode /\ \A f \in AllFields : Ok(json_body.node, f)
      [] kind = "GetAll" ->
            /\ json_body.hasNode
            /\ Ok(json_body.node, "dir")
            /\ json_body.node.dir
            /\ Ok(json_body.node, "nodes") =>
                  \A i \in 1 .. Len(json_body.nodes) : EntryOk(json_body.nodes[i])
      [] kind = "Delete" -> ~json_body.null
      [] OTHER -> FALSE

\* C17: for a successful, well-formed response to Get, GetAll or Delete
\* that carries a store index, the callback is invoked once, with OK and
\* that index; a GetAll on a directory without 'nodes' gets OK, an empty
\* list and that index.
C17_IndexIsResponseIndex ==
    \A kind \in {"Get", "GetAll", "Delete"} :
        (/\ DecodedOK(kind)
         /\ WellFormed(kind, issued.json_body)
         /\ issued.etcd_index >= 0) =>
            /\ Len(cbCalls) = 1
            /\ cbCalls[1].status = "OK"
            /\ cbCalls[1].index = issued.etcd_index
            /\ (kind = "GetAll" /\ ~Ok(issued.json_body.node, "nodes")) =>
                  cbCalls[1].nodes = <<>>

\* a GetAll on a directory without 'nodes' was answered with a store index
\* and the caller got OK with index -1
C17_Witness ==
    /\ DecodedOK("GetAll")
    /\ WellFormed("GetAll", issued.json_body)
    /\ ~Ok(issued.json_body.node, "nodes")
    /\ issued.etcd_index = MaxIndex
    /\ cbCalls = <<GetAllCall("OK", <<>>, -1)>>

\* the zero/invalid result of a callback: the invalid node, an empty list,
\* an empty key, and index -1
ZeroResult(call) ==
    /\ call.index = -1
    /\ "node" \in DOMAIN call => call.node = InvalidNode
    /\ "nodes" \in DOMAIN call => call.nodes = <<>>
    /\ "key" \in DOMAIN call => call.key = EmptyString

\* C18: whenever the callback of a typed operation receives a non-OK
\* status, propagated or produced by a malformed body, the result with it
\* is the zero/invalid value, index -1 included.
C18_FailureHasZeroResult ==
    \A i \in 1 .. Len(cbCalls) :
        cbCalls[i].status # "OK" => ZeroResult(cbCalls[i])

\* a Create was answered 200 with a body the decoder rejects and the
\* caller got FAILED_PRECONDITION with index 0
C18_Witness ==
    /\ DecodedOK("Create")
    /\ cbCalls = <<IndexCall("FAILED_PRECONDITION", 0)>>

\* libevent::HttpRequest of the last completion was a 307 without a
\* location header
RedirectWithoutLocation ==
    /\ last.handler = "EtcdClient::RequestDone"
    /\ ~last.null
    /\ last.code = 307
    /\ last.ep = NoEndpoint

\* C20: a 307 response without a location header is not taken as a
\* redirect: the process goes on, the leader is the one before, the
\* request is not run again, and the task returns the status mapped from
\* the code, UNKNOWN.
C20_RedirectWithoutLocationIsOrdinary ==
    RedirectWithoutLocation =>
        /\ aborted = ""
        /\ leader_ = last.leader
        /\ \A id \in {last.id} \cap DOMAIN reqs :
              /\ reqs[id].task_.status = ErrorCodeForHttpResponseCode(307)
              /\ reqs[id].task_.returns = 1
              /\ ~reqs[id].req_
        /\ \A i \in 1 .. Len(baseQ) : baseQ[i].op # "Run"

\* the process stopped on the CHECK_NOTNULL of the location header
C20_Witness ==
    /\ RedirectWithoutLocation
    /\ last.outcome = "abort"
    /\ aborted = "CHECK_NOTNULL(location)"
    /\ leader_ = last.leader

\* the last handler was the completion of a long-poll with an OK status and
\* a node holding createdIndex, modifiedIndex and key, on a watch that was
\* not cancelled
PollSucceeded ==
    /\ last.handler = "WatchState::RequestDone"
    /\ last.ok
    /\ ~last.cancelled

\* the updates WatchState::RequestDone has just handed to SendUpdates
UpdatesProduced ==
    IF taskQ # <<>> /\ taskQ[Len(taskQ)].op = "SendUpdates"
    THEN taskQ[Len(taskQ)].batch.updates
    ELSE <<>>

\* C19: a successful long-poll response produces exactly one WatchUpdate,
\* with exists=true and the node's value when the node has a 'value'
\* field, exists=false and an empty value when it has none, and the key,
\* created_index and modified_index of the response node either way.
C19_OneUpdatePerPollResponse ==
    PollSucceeded =>
        /\ last.outcome = "update"
        /\ Len(UpdatesProduced) = 1
        /\ LET update == UpdatesProduced[1]
               node == last.node
           IN /\ update.exists = Ok(node, "value")
              /\ update.node.value = (IF Ok(node, "value") THEN node.value ELSE "")
              /\ update.node.key = node.key
              /\ update.node.created_index = node.createdIndex
              /\ update.node.modified_index = node.modifiedIndex

\* a poll was answered with a node that has no 'value' field and the update
\* handed to SendUpdates says the key does not exist
C19_Witness ==
    /\ PollSucceeded
    /\ ~Ok(last.node, "value")
    /\ Len(UpdatesProduced) = 1
    /\ ~UpdatesProduced[1].exists
    /\ UpdatesProduced[1].node.modified_index = MaxIndex

\* the last handler was the completion of the watch's initial read
SnapshotDone == last.handler \in {"GetRequestDone", "GetAllRequestDone"}

\* the batch InitialGetAllDone has just handed to the executor
SnapshotBatch ==
    IF \E i \in 1 .. Len(taskQ) : taskQ[i].op = "cb_"
    THEN taskQ[CHOOSE i \in 1 .. Len(taskQ) : taskQ[i].op = "cb_"].batch.updates
    ELSE <<>>

\* nothing was handed to the callback, no poll was issued, no retry waits
NothingStarted ==
    /\ produced = 0
    /\ delivered = <<>>
    /\ Undelivered(Client) = 0
    /\ ~last.started
    /\ delays = <<>>
    /\ \A id \in DOMAIN reqs : ~IsLongPoll(reqs[id])

\* C21: when the watch's initial read completes, a watch whose
\* cancellation was requested resolves its handle CANCELLED, delivers
\* nothing and issues no poll, whatever the read's status; without
\* cancellation a failed read stops the process (no retry, no delivery, no
\* poll), and a successful read hands the executor exactly one batch with
\* one exists=true update per returned node and then starts polling (the
\* one way no poll is started is that StartRequest's own test saw a
\* cancellation and resolved the handle CANCELLED).
C21_SnapshotCompletion ==
    SnapshotDone =>
        /\ last.cancelled =>
              /\ task_.status = "CANCELLED"
              /\ aborted = ""
              /\ NothingStarted
        /\ (~last.cancelled /\ last.read # "OK") =>
              /\ aborted # ""
              /\ task_.status = "ACTIVE"
              /\ NothingStarted
        /\ (~last.cancelled /\ last.read = "OK") =>
              /\ produced = 1
              /\ Undelivered(Client) = 1
              /\ Len(SnapshotBatch) = last.nodes
              /\ \A i \in 1 .. Len(SnapshotBatch) : SnapshotBatch[i].exists
              /\ delays = <<>>
              /\ last.started \/ task_.status = "CANCELLED"
              /\ Cardinality({id \in DOMAIN reqs : IsLongPoll(reqs[id])}) =
                    (IF last.started THEN 1 ELSE 0)

\* a directory snapshot with two nodes was handed on as one batch of two
\* updates and the first poll was issued
C21_Witness ==
    /\ SnapshotDone
    /\ ~last.cancelled
    /\ last.read = "OK"
    /\ last.nodes = 2
    /\ Len(SnapshotBatch) = 2
    /\ last.started

\* the connections conns_ holds
SharedConnections == {conns_[ep] : ep \in DOMAIN conns_}

\* the requests the watch issued after its snapshot read (the snapshot read
\* is the first request of the client)
AfterSnapshot == {id \in DOMAIN reqs : id > 1}

\* C22: every request the watch issues after its snapshot is a GET with
\* wait=true, recursive=true and waitIndex = highest_index_seen_ + 1 that
\* asks for a connection of its own, and each attempt of it, re-runs after
\* a redirect included, is made on a clone of a connection of conns_; the
\* snapshot read runs on the connection of conns_ itself; so no long-poll
\* is ever on a connection of conns_.
C22_PollsOnDedicatedConnection ==
    /\ \A id \in AfterSnapshot :
          /\ reqs[id].verb_ = "GET"
          /\ reqs[id].separate_conn_
          /\ DOMAIN reqs[id].params_ \ FlagKeys = {"wait", "waitIndex", "recursive"}
          /\ reqs[id].params_["wait"] = "true"
          /\ reqs[id].params_["recursive"] = "true"
          /\ reqs[id].params_["waitIndex"] = to_string(highest_index_seen_ + 1)
    /\ last.started => last.waitIndex = last.highest + 1
    /\ \A id \in DOMAIN reqs :
          reqs[id].req_ =>
             /\ reqs[id].conn_.ep \in DOMAIN conns_
             /\ [reqs[id].conn_ EXCEPT !.clone = FALSE] = conns_[reqs[id].conn_.ep]
             /\ reqs[id].conn_.clone <=> IsLongPoll(reqs[id])
             /\ IsLongPoll(reqs[id]) <=> id \in AfterSnapshot
             /\ IsLongPoll(reqs[id]) => reqs[id].conn_ \notin SharedConnections

\* a long-poll was redirected and its second attempt runs on a clone of the
\* new leader's connection
C22_Witness ==
    \E id \in AfterSnapshot :
        /\ reqs[id].req_
        /\ reqs[id].runs = 2
        /\ reqs[id].conn_.clone
        /\ reqs[id].conn_.ep = EndpointB
        /\ leader_ = conns_[EndpointB]

\* the handlers of the watch that test CancelRequested: the completion of
\* the initial read, the completion of a poll, and StartRequest run by a
\* delayed retry or after SendUpdates has called the callback
CancelTested ==
    last.handler \in {"GetRequestDone", "GetAllRequestDone",
                      "WatchState::RequestDone", "StartRequest", "SendUpdates"}

\* what a handler that found the cancellation requested leaves: no poll
\* issued, no retry scheduled, no batch produced, and, unless a CHECK
\* stopped the process before the test, the handle resolved CANCELLED
StoppedByCancel ==
    (CancelTested /\ last.cancelled) =>
        /\ ~last.started
        /\ last.outcome \notin {"delivered", "update", "retry"}
        /\ aborted = "" => task_.status = "CANCELLED"

\* C23: a handler of the watch that runs after the initial read, after a
\* poll completion or before a poll is issued (a delayed retry included)
\* with the cancellation requested issues nothing; and once the handle is
\* resolved CANCELLED no step issues a request or schedules a delayed
\* retry.
C23_CancelStopsTheWatch ==
    [][/\ StoppedByCancel'
       /\ task_.status = "CANCELLED" =>
             /\ nextId' = nextId
             /\ DOMAIN reqs' \subseteq DOMAIN reqs
             /\ Len(delays') <= Len(delays)
             /\ \A i \in 1 .. Len(baseQ') :
                   baseQ'[i].op \in {"Run", "StartRequest"} =>
                      \E j \in 1 .. Len(baseQ) : baseQ[j] = baseQ'[i]]_vars

\* a delayed retry ran StartRequest on a cancelled watch after a batch had
\* been produced, and resolved the handle
C23_Witness ==
    /\ last.handler = "StartRequest"
    /\ last.cancelled
    /\ ~last.started
    /\ task_.status = "CANCELLED"
    /\ produced >= 1
    /\ delays = <<>>

\* the long-poll Requests alive: issued and waiting to run, in flight, or
\* completed and waiting for WatchState::RequestDone
Polls == {id \in DOMAIN reqs : IsLongPoll(reqs[id])}

\* the delayed retries: waiting for their timer, or fired and waiting in
\* event_base_ for StartRequest to run
Retries ==
    Len(delays) + Cardinality({i \in 1 .. Len(baseQ) : baseQ[i].op = "StartRequest"})

\* the batches made from a poll response that wait for SendUpdates
PollBatchesWaiting == {i \in 1 .. Len(taskQ) : taskQ[i].op = "SendUpdates"}

\* C24: the watch has at most one long-poll request or delayed retry at any
\* time, and none while a batch made from a poll response waits to be
\* handed to the callback.
C24_OnePollAtATime ==
    /\ Cardinality(Polls) + Retries <= 1
    /\ Cardinality(PollBatchesWaiting) <= 1
    /\ PollBatchesWaiting # {} => Cardinality(Polls) + Retries = 0

\* a batch made from the second poll's response waits for SendUpdates and
\* there is no request and no retry
C24_Witness ==
    /\ PollBatchesWaiting # {}
    /\ Polls = {}
    /\ Retries = 0
    /\ produced = 3
    /\ Len(delivered) = 2

\* C25: for every typed operation and every shape of the response (failed
\* status, no 'node', 'dir' missing or false, no 'nodes', a field missing,
\* well-formed) the caller's callback has been invoked exactly once when
\* the decoder of the operation has run.
C25_CallbackExactlyOnce ==
    issued.decoded => Len(cbCalls) = 1

\* a GetAll was answered with a node without 'dir' and the callback was
\* invoked three times: FAILED_PRECONDITION, INVALID_ARGUMENT, and the
\* result of the rest of the decoder
C25_Witness ==
    /\ DecodedOK("GetAll")
    /\ issued.json_body.hasNode
    /\ ~Ok(issued.json_body.node, "dir")
    /\ Len(cbCalls) = 3
    /\ cbCalls[1].status = "FAILED_PRECONDITION"
    /\ cbCalls[2].status = "INVALID_ARGUMENT"
    /\ aborted = ""

\* the Requests that a closure in event_base_ is about to Run
AboutToRun == {baseQ[i].id : i \in {j \in 1 .. Len(baseQ) : baseQ[j].op = "Run"}}

\* C26: whenever Request::Run is invoked, first attempt or re-run after a
\* redirect, the Request has no transport request and no connection: the
\* CHECKs at the start of Run never fail, a Request waiting to be run is
\* not running, and a Request has a connection exactly while one attempt
\* of it is outstanding.
C26_RunFindsRequestIdle ==
    /\ aborted \notin {"CHECK(!req_)", "CHECK(!conn_)"}
    /\ \A id \in AboutToRun :
          /\ id \in DOMAIN reqs
          /\ ~reqs[id].req_
          /\ reqs[id].conn_ = NoConn
          /\ reqs[id].runs = 0
    /\ \A id \in DOMAIN reqs :
          /\ reqs[id].req_ <=> reqs[id].conn_ # NoConn
          /\ reqs[id].req_ => reqs[id].runs >= 1
          /\ reqs[id].req_ => reqs[id].task_.returns = 0
    /\ (last.handler = "EtcdClient::RequestDone" /\ last.outcome = "redirect") =>
          /\ reqs[last.id].req_
          /\ reqs[last.id].runs >= 2

\* a Request was run a second time, by the handler of a redirect
C26_Witness ==
    /\ last.handler = "EtcdClient::RequestDone"
    /\ last.outcome = "redirect"
    /\ reqs[last.id].runs = 2
    /\ reqs[last.id].req_
    /\ aborted = ""

\* the first attempt of every Request is on the leader connection that was
\* current when Generic was called for it
FirstAttemptOnLeaderAtCall ==
    \A id \in DOMAIN reqs :
        (reqs[id].req_ /\ reqs[id].runs = 1) =>
            /\ id \in DOMAIN hist.first
            /\ reqs[id].conn_ = hist.first[id]

\* the last handler was the completion of a 307 with a location header
RedirectProcessed ==
    /\ last.handler = "EtcdClient::RequestDone"
    /\ ~last.null
    /\ last.code = 307
    /\ last.ep # NoEndpoint

\* C27: the first attempt of a Request goes to the leader connection that
\* was current when Generic was called, whatever the leader is when the
\* Request runs; leader_ and conns_ change only in the step that processes
\* a 307 response with a location header, which makes the connection of
\* that endpoint the leader and keeps every entry of conns_.
C27_LeaderChangesOnlyOnRedirect ==
    [][/\ FirstAttemptOnLeaderAtCall'
       /\ (leader_' # leader_ \/ conns_' # conns_) =>
             /\ RedirectProcessed'
             /\ redirects' = redirects + 1
             /\ leader_' = conns_'[last'.ep]
             /\ \A ep \in DOMAIN conns_ :
                   ep \in DOMAIN conns_' /\ conns_'[ep] = conns_[ep]]_vars

\* the second operation was issued under leader a, the first was then
\* redirected to b, and the second is on its first attempt on a's
\* connection although the leader is b's
C27_Witness ==
    \E id \in DOMAIN reqs :
        /\ reqs[id].req_
        /\ reqs[id].runs = 1
        /\ reqs[id].conn_ = conns_[EndpointA]
        /\ leader_.ep = EndpointB

=============================================================================
